---- MODULE Spec2Model ----
(***************************************************************************)
(* The BOM container of xcbuild-bom (src/crates/xcbuild-bom/src/lib.rs):   *)
(* the writer (BomWriter: add_block, add_variable, build_tree, serialize), *)
(* the byte buffer it produces, and the reader (Bom: load, index_get,      *)
(* variables, variable_get, tree_entries, collect_tree_entries), and the    *)
(* path records of its module paths (PathInfo2, FileKey, resolve_path).    *)
(*                                                                         *)
(* Buffers and blocks are sequences of bytes (0..255); a block index i of  *)
(* the code is position i + 1 of a TLA+ sequence.  usize is 64 bits wide,  *)
(* so the sums of u32 values the reader computes cannot overflow.  TLC's   *)
(* integers are 32 bits wide: the reader's comparisons `a + b > len` are   *)
(* written so that the sum is never formed (SumExceeds), a u32 field of    *)
(* 2^31 or more is read as 2^31 - 1 (ReadU32), and the writer's `as u32`   *)
(* casts, exact below 2^32, are left out (its archives are far smaller).   *)
(***************************************************************************)
EXTENDS Integers, Sequences, FiniteSets, TLC

VARIABLES
    blocks,     \* BomWriter.blocks: the writer's blocks, block 0 first
    variables,  \* BomWriter.variables: <<name, index>> in call order
    panicked,   \* the writer's thread panicked inside build_tree
    built,      \* the last build_tree call: its argument, leaf_indices, result
    nops,       \* number of writer calls made so far
    phase,      \* "write" | "buffer" | "again" | "read": position of the
                \* driving program
    data,       \* the byte buffer handed to Bom::load
    touched,    \* the buffer was overwritten or cut after serialize
    bom,        \* the result of Bom::load
    rd,         \* the reader call in progress or finished, and its result
    pcall       \* the call of module paths in progress or finished

vars ==
    <<blocks, variables, panicked, built, nops, phase, data, touched, bom, rd,
      pcall>>

----------------------------------------------------------------------------
(* Program constants *)

HEADER_SIZE == 32
INDEX_ENTRY_SIZE == 8
TREE_HEADER_SIZE == 21
TREE_ENTRY_HEADER_SIZE == 12
TREE_ENTRY_INDEX_SIZE == 8
ENTRIES_PER_LEAF == 256
TREE_BLOCK_SIZE == 4096

BOM_MAGIC == <<66, 79, 77, 83, 116, 111, 114, 101>>   \* b"BOMStore"
TREE_MAGIC == <<116, 114, 101, 101>>                  \* b"tree"

U8 == 256
U16 == 65536

----------------------------------------------------------------------------
(* Bounds of the model *)

MaxWriterOps == 3   \* writer calls per run
MaxSmallLen == 2    \* longest entry list below the leaf size
MaxDepth == 4       \* collect_tree_entries invocations per tree_entries call
MaxSteps == 3       \* iterations of the loop of resolve_path per call
\* node blocks of a tree put together by hand; a walk over them that ends
\* takes at most MaxChain + 1 invocations, fewer than MaxDepth
MaxChain == 2
\* entries of a file list handed to mkbom
MaxPaths == 3

----------------------------------------------------------------------------
(* Byte helpers: byteorder::BigEndian and slices *)

Byte == 0 .. 255

\* u32::to_be_bytes
U32BE(n) == <<(n \div 16777216) % 256, (n \div 65536) % 256, (n \div 256) % 256, n % 256>>

\* u16::to_be_bytes
U16BE(n) == <<(n \div 256) % 256, n % 256>>

\* BigEndian::read_u32(&s[off..off + 4]), off counted from 0.  A value of
\* 2^31 or more is read as 2^31 - 1: buffers are shorter than that, so every
\* comparison the reader makes with the value has the same outcome.
ReadU32(s, off) ==
    IF s[off + 1] >= 128 THEN 2147483647
    ELSE s[off + 1] * 16777216 + s[off + 2] * 65536 + s[off + 3] * 256
         + s[off + 4]

\* BigEndian::read_u16(&s[off..off + 2])
ReadU16(s, off) == s[off + 1] * 256 + s[off + 2]

\* &s[a..b], a and b counted from 0
Slice(s, a, b) == SubSeq(s, a + 1, b)

\* the concatenation of n pieces of w bytes each, piece i being F(i)
FlatMap(n, w, F(_)) ==
    [k \in 1 .. n * w |-> F(((k - 1) \div w) + 1)[((k - 1) % w) + 1]]

\* the concatenation s[lo] \o ... \o s[hi] (extend_from_slice in a loop)
RECURSIVE ConcatRange(_, _, _)
ConcatRange(s, lo, hi) ==
    IF lo > hi THEN <<>>
    ELSE IF lo = hi THEN s[lo]
    ELSE LET mid == (lo + hi) \div 2
         IN  ConcatRange(s, lo, mid) \o ConcatRange(s, mid + 1, hi)

Min(a, b) == IF a < b THEN a ELSE b

\* a + b > len for naturals a, b, len, computed without forming a + b
SumExceeds(a, b, len) == b > len \/ a > len - b

----------------------------------------------------------------------------
(* BomWriter *)

\* BomWriter::new: block 0 is the reserved empty block
NewBlocks == << <<>> >>

\* the index taken after the push instead
NextIndexAfterPush(b) == Len(b) + 1

\* the index add_block returns: blocks.len() as u32, taken before the push
NextIndex(b) == Len(b)

\* chunk c (counted from 0) of entries.chunks(ENTRIES_PER_LEAF)
Chunk(e, c) ==
    SubSeq(e, c * ENTRIES_PER_LEAF + 1, Min(Len(e), (c + 1) * ENTRIES_PER_LEAF))

\* number of chunks entries.chunks(ENTRIES_PER_LEAF) yields
NumChunks(e) == (Len(e) + ENTRIES_PER_LEAF - 1) \div ENTRIES_PER_LEAF

\* One iteration of the chunk loop of build_tree on blocks b: every pair of
\* the chunk adds its value block and then its key block, and the leaf block
\* that lists their indices is added last.
AddLeaf(b, chunk) ==
    LET start == Len(b)
        value_idx(i) == start + 2 * (i - 1)
        key_idx(i) == start + 2 * (i - 1) + 1
        kv == [k \in 1 .. 2 * Len(chunk) |->
                  IF k % 2 = 1 THEN chunk[(k + 1) \div 2][2]
                               ELSE chunk[k \div 2][1]]
        leaf_data ==
            U16BE(1) \o U16BE(Len(chunk) % U16) \o U32BE(0) \o U32BE(0)
            \o FlatMap(Len(chunk), TREE_ENTRY_INDEX_SIZE,
                       LAMBDA i : U32BE(value_idx(i)) \o U32BE(key_idx(i)))
    IN  [blocks |-> (b \o kv) \o <<leaf_data>>,
         leaf_idx |-> start + 2 * Len(chunk)]

\* the writer after the first c iterations of the chunk loop
RECURSIVE AddLeaves(_, _, _)
AddLeaves(b, e, c) ==
    IF c = 0 THEN [blocks |-> b, leaf_indices |-> <<>>]
    ELSE LET prev == AddLeaves(b, e, c - 1)
             step == AddLeaf(prev.blocks, Chunk(e, c - 1))
         IN  [blocks |-> step.blocks,
              leaf_indices |-> Append(prev.leaf_indices, step.leaf_idx)]

\* leaf_indices.len() - 1 in usize: on an empty list the subtraction panics
\* when the build checks overflow and wraps around to usize::MAX otherwise
PatchEnd(len, overflow_checks) ==
    IF len > 0 THEN [kind |-> "value", n |-> len - 1]
    ELSE IF overflow_checks THEN [kind |-> "panic", n |-> 0]
    ELSE [kind |-> "usize_max", n |-> 0]

\* the loop `for i in 0..end` reads leaf_indices[i + 1]: under end =
\* usize::MAX its first iteration reads past the end of the empty list and
\* panics; under end = len - 1 every read is in bounds
PatchPanics(len, end) ==
    \/ end.kind = "panic"
    \/ end.kind = "usize_max"
    \/ end.kind = "value" /\ end.n > 0 /\ end.n >= len

\* leaf[4..8].copy_from_slice(&next_idx.to_be_bytes())
SetForward(leaf, next_idx) ==
    LET be == U32BE(next_idx)
    IN  [leaf EXCEPT ![5] = be[1], ![6] = be[2], ![7] = be[3], ![8] = be[4]]

\* the forward-patching loop stopping one leaf early
PatchForwardShort(b, leaf_indices, end) ==
    [k \in 1 .. Len(b) |->
        IF \E i \in 1 .. end - 1 : leaf_indices[i] + 1 = k
        THEN LET i == CHOOSE i \in 1 .. end - 1 : leaf_indices[i] + 1 = k
             IN  SetForward(b[k], leaf_indices[i + 1])
        ELSE b[k]]

\* the forward-patching loop writing the pointer into block 1 instead of
\* into the leaf
PatchForwardMisplaced(b, leaf_indices, end) ==
    [k \in 1 .. Len(b) |->
        IF end >= 1 /\ k = 2 THEN U32BE(leaf_indices[2]) ELSE b[k]]

\* the forward-patching loop closing the chain: the last leaf is pointed at
\* the first
PatchForwardCircular(b, leaf_indices, end) ==
    [k \in 1 .. Len(b) |->
        IF \E i \in 1 .. end : leaf_indices[i] + 1 = k
        THEN LET i == CHOOSE i \in 1 .. end : leaf_indices[i] + 1 = k
             IN  SetForward(b[k], leaf_indices[i + 1])
        ELSE IF end >= 1 /\ leaf_indices[end + 1] + 1 = k
        THEN SetForward(b[k], leaf_indices[1])
        ELSE b[k]]

\* the forward-patching loop: leaf i is pointed at leaf i + 1
PatchForward(b, leaf_indices, end) ==
    [k \in 1 .. Len(b) |->
        IF \E i \in 1 .. end : leaf_indices[i] + 1 = k
        THEN LET i == CHOOSE i \in 1 .. end : leaf_indices[i] + 1 = k
             IN  SetForward(b[k], leaf_indices[i + 1])
        ELSE b[k]]

\* the leaf build_tree adds for an empty entry list
EmptyLeaf == U16BE(1) \o U16BE(0) \o U32BE(0) \o U32BE(0)

\* the tree-header block
TreeHeader(child_index, entry_count) ==
    TREE_MAGIC \o U32BE(1) \o U32BE(child_index) \o U32BE(TREE_BLOCK_SIZE)
    \o U32BE(entry_count) \o <<0>>

\* BomWriter::build_tree(entries) on blocks b
build_tree(b, e, overflow_checks) ==
    LET leaves == AddLeaves(b, e, NumChunks(e))
        leaf_indices == leaves.leaf_indices
        end == PatchEnd(Len(leaf_indices), overflow_checks)
    IN  IF PatchPanics(Len(leaf_indices), end)
        THEN [panic |-> TRUE, blocks |-> leaves.blocks,
              leaf_indices |-> leaf_indices, root |-> 0]
        ELSE LET patched == PatchForward(leaves.blocks, leaf_indices, end.n)
                 withChild == IF leaf_indices = <<>>
                              THEN Append(patched, EmptyLeaf)
                              ELSE patched
                 child_index == IF leaf_indices = <<>>
                                THEN NextIndex(patched)
                                ELSE leaf_indices[1]
             IN  [panic |-> FALSE,
                  blocks |-> Append(withChild,
                                    TreeHeader(child_index, Len(e))),
                  leaf_indices |-> leaf_indices,
                  root |-> NextIndex(withChild)]

\* block_offsets with data_offset never advanced
BlockOffsetsNoAdvance(b, lo, hi, off) ==
    [k \in 1 .. hi - lo + 1 |-> <<off, Len(b[lo + k - 1])>>]

\* block_offsets of serialize for blocks lo..hi, the first of them at off
RECURSIVE BlockOffsets(_, _, _, _)
BlockOffsets(b, lo, hi, off) ==
    IF lo > hi THEN <<>>
    ELSE IF lo = hi THEN << <<off, Len(b[lo])>> >>
    ELSE LET mid == (lo + hi) \div 2
             left == BlockOffsets(b, lo, mid, off)
             last == left[Len(left)]
         IN  left \o BlockOffsets(b, mid + 1, hi, last[1] + last[2])

\* one record of the variables table: index, name length, name
VarRecord(v) == (U32BE(v[2]) \o <<Len(v[1]) % U8>>) \o v[1]

\* vars_data of serialize
VarsData(vs) ==
    U32BE(Len(vs))
    \o ConcatRange([i \in 1 .. Len(vs) |-> VarRecord(vs[i])], 1, Len(vs))

\* BomWriter::serialize
serialize(b, vs) ==
    LET num_blocks == Len(b)
        block_offsets == BlockOffsets(b, 1, Len(b), HEADER_SIZE)
        lastb == block_offsets[Len(block_offsets)]
        index_offset == lastb[1] + lastb[2]
        index_size == 4 + num_blocks * INDEX_ENTRY_SIZE
        vars_offset == index_offset + index_size
        vars_data == VarsData(vs)
    IN  BOM_MAGIC \o U32BE(1) \o U32BE(num_blocks) \o U32BE(index_offset)
        \o U32BE(index_size) \o U32BE(vars_offset)
        \o U32BE(Len(vars_data))
        \o ConcatRange(b, 1, Len(b))
        \o U32BE(num_blocks)
        \o FlatMap(Len(block_offsets), INDEX_ENTRY_SIZE,
                   LAMBDA i : U32BE(block_offsets[i][1])
                              \o U32BE(block_offsets[i][2]))
        \o vars_data

----------------------------------------------------------------------------
(* BomError, Result and Option values *)

Error(kind, index, name) == [kind |-> kind, index |-> index, name |-> name]
NoError == Error("none", 0, <<>>)

\* Option<&[u8]>
None == [some |-> FALSE, val |-> <<>>]
Some(v) == [some |-> TRUE, val |-> v]

\* Option<u32>
NoIndex == [some |-> FALSE, index |-> 0]
SomeIndex(i) == [some |-> TRUE, index |-> i]

----------------------------------------------------------------------------
(* Bom: the reader *)

NoBom == [index_offset |-> 0, index_count |-> 0, variables_offset |-> 0]

\* load: the checks of the length, the magic and the version, in order
HeaderErrorVersionFirst(d) ==
    IF Len(d) < HEADER_SIZE THEN Error("FileTooSmall", 0, <<>>)
    ELSE IF ReadU32(d, 8) # 1 THEN Error("InvalidVersion", ReadU32(d, 8), <<>>)
    ELSE IF Slice(d, 0, 8) # BOM_MAGIC THEN Error("InvalidMagic", 0, <<>>)
    ELSE NoError

HeaderError(d) ==
    IF Len(d) < HEADER_SIZE THEN Error("FileTooSmall", 0, <<>>)
    ELSE IF Slice(d, 0, 8) # BOM_MAGIC THEN Error("InvalidMagic", 0, <<>>)
    ELSE IF ReadU32(d, 8) # 1 THEN Error("InvalidVersion", ReadU32(d, 8), <<>>)
    ELSE NoError

\* load: the checks of index_offset and index_length
IndexErrorNoLength(d) ==
    IF SumExceeds(ReadU32(d, 16), 4, Len(d))
    THEN Error("IndexOutOfBounds", 0, <<>>)
    ELSE NoError

IndexError(d) ==
    LET index_offset == ReadU32(d, 16)
        index_length == ReadU32(d, 20)
    IN  IF SumExceeds(index_offset, 4, Len(d))
        THEN Error("IndexOutOfBounds", 0, <<>>)
        ELSE IF SumExceeds(index_offset, index_length, Len(d))
        THEN Error("IndexOutOfBounds", 0, <<>>)
        ELSE NoError

\* load: the check of variables_offset
VariablesErrorLoose(d) ==
    IF ReadU32(d, 24) > Len(d)
    THEN Error("VariablesOutOfBounds", 0, <<>>)
    ELSE NoError

VariablesError(d) ==
    LET variables_offset == ReadU32(d, 24)
    IN  IF SumExceeds(variables_offset, 4, Len(d))
        THEN Error("VariablesOutOfBounds", 0, <<>>)
        ELSE NoError

\* Bom::load(data)
load(d) ==
    IF HeaderError(d) # NoError
    THEN [ok |-> FALSE, err |-> HeaderError(d), val |-> NoBom]
    ELSE IF IndexError(d) # NoError
    THEN [ok |-> FALSE, err |-> IndexError(d), val |-> NoBom]
    ELSE IF VariablesError(d) # NoError
    THEN [ok |-> FALSE, err |-> VariablesError(d), val |-> NoBom]
    ELSE [ok |-> TRUE, err |-> NoError,
          val |-> [index_offset |-> ReadU32(d, 16),
                   index_count |-> ReadU32(d, ReadU32(d, 16)),
                   variables_offset |-> ReadU32(d, 24)]]

\* entry_offset + INDEX_ENTRY_SIZE > data.len() for entry_offset =
\* index_offset + 4 + index * INDEX_ENTRY_SIZE, computed without forming
\* index * INDEX_ENTRY_SIZE: with room = len - index_offset - 4 -
\* INDEX_ENTRY_SIZE the entry lies outside iff room < 0 or
\* index * INDEX_ENTRY_SIZE > room
EntryOutside(index_offset, index, len) ==
    LET room == len - index_offset - 4 - INDEX_ENTRY_SIZE
    IN  room < 0 \/ index > room \div INDEX_ENTRY_SIZE

\* index_get without its check of the index against index_count
index_getUncounted(d, a, index) ==
    IF EntryOutside(a.index_offset, index, Len(d)) THEN None
    ELSE LET entry_offset == a.index_offset + 4 + index * INDEX_ENTRY_SIZE
             address == ReadU32(d, entry_offset)
             length == ReadU32(d, entry_offset + 4)
         IN  IF SumExceeds(address, length, Len(d)) THEN None
             ELSE Some(Slice(d, address, address + length))

\* index_get taking index 0 for no block
index_getSkippingNull(d, a, index) ==
    IF index = 0 \/ index >= a.index_count THEN None
    ELSE IF EntryOutside(a.index_offset, index, Len(d)) THEN None
    ELSE LET entry_offset == a.index_offset + 4 + index * INDEX_ENTRY_SIZE
             address == ReadU32(d, entry_offset)
             length == ReadU32(d, entry_offset + 4)
         IN  IF SumExceeds(address, length, Len(d)) THEN None
             ELSE Some(Slice(d, address, address + length))

\* Bom::index_get(index) on the archive a over the buffer d
index_get(d, a, index) ==
    IF index >= a.index_count THEN None
    ELSE IF EntryOutside(a.index_offset, index, Len(d)) THEN None
    ELSE LET entry_offset == a.index_offset + 4 + index * INDEX_ENTRY_SIZE
             address == ReadU32(d, entry_offset)
             length == ReadU32(d, entry_offset + 4)
         IN  IF SumExceeds(address, length, Len(d)) THEN None
             ELSE Some(Slice(d, address, address + length))

\* String::from_utf8_lossy(bytes).to_string(): a String is its UTF-8 bytes.
\* An ASCII byte and a two-byte sequence (a lead byte 0xC2..0xDF followed
\* by a continuation byte 0x80..0xBF) are kept; every other byte of 0x80 or
\* more is replaced by U+FFFD (EF BF BD).  The lead bytes of three- and
\* four-byte sequences (0xE0..0xF4) are not told apart from invalid bytes:
\* the byte strings of the model hold none.
Utf8Lead(b) == b >= 194 /\ b <= 223
Utf8Continuation(b) == b >= 128 /\ b <= 191
Utf8Lossy(bytes) ==
    LET kept(i) ==
            \/ bytes[i] < 128
            \/ /\ Utf8Lead(bytes[i])
               /\ i < Len(bytes) /\ Utf8Continuation(bytes[i + 1])
            \/ /\ Utf8Continuation(bytes[i])
               /\ i > 1 /\ Utf8Lead(bytes[i - 1])
        decoded == [i \in 1 .. Len(bytes) |->
                       IF kept(i) THEN <<bytes[i]>> ELSE <<239, 191, 189>>]
    IN  ConcatRange(decoded, 1, Len(bytes))

\* the record loop breaking on a name that ends where the buffer ends
NextRecordStrict(d, offset) ==
    IF offset < 0 \/ offset + 5 > Len(d) THEN -1
    ELSE LET name_len == d[offset + 5]
         IN  IF offset + 5 + name_len >= Len(d) THEN -1
             ELSE offset + 5 + name_len

\* One iteration of the record loop of variables(): from the offset of a
\* record to the offset of the next one, or "break" (-1) when the record's
\* 5-byte prefix or its name would read past the buffer
NextRecord(d, offset) ==
    IF offset < 0 \/ offset + 5 > Len(d) THEN -1
    ELSE LET name_len == d[offset + 5]
         IN  IF offset + 5 + name_len > Len(d) THEN -1
             ELSE offset + 5 + name_len

\* the offset after n iterations of the record loop started at offset
RECURSIVE RecordOffset(_, _, _)
RecordOffset(d, offset, n) ==
    IF n = 0 THEN offset
    ELSE IF n = 1 THEN NextRecord(d, offset)
    ELSE RecordOffset(d, RecordOffset(d, offset, n \div 2), n - (n \div 2))

\* Bom::variables(): the records parsed before the loop ends or breaks
Variables(d, a) ==
    LET vars_offset == a.variables_offset
    IN  IF vars_offset + 4 > Len(d) THEN <<>>
        ELSE LET count == ReadU32(d, vars_offset)
                 \* every record takes 5 bytes or more
                 most == Min(count, Len(d) \div 5)
                 start(k) == RecordOffset(d, vars_offset + 4, k - 1)
                 parsed == CHOOSE m \in 0 .. most :
                              /\ \A k \in 1 .. m : NextRecord(d, start(k)) >= 0
                              /\ m = most \/ NextRecord(d, start(m + 1)) < 0
             IN  [k \in 1 .. parsed |->
                    LET offset == start(k)
                    IN  [name |-> Utf8Lossy(Slice(d, offset + 5,
                                                  offset + 5 + d[offset + 5])),
                         index |-> ReadU32(d, offset)]]

\* Bom::variable_get(name): the first variable of that name
variable_get(d, a, name) ==
    LET vs == Variables(d, a)
        hits == {k \in 1 .. Len(vs) : vs[k].name = name}
    IN  IF hits = {} THEN NoIndex
        ELSE SomeIndex(vs[CHOOSE k \in hits : \A j \in hits : k <= j].index)

----------------------------------------------------------------------------
(* Bom::tree_entries and collect_tree_entries.  The recursion of           *)
(* collect_tree_entries is a chain of calls, each made last in its caller, *)
(* so a call in progress is the index of the node to visit next (cur) and   *)
(* the entries collected so far; depth counts the invocations and nodes    *)
(* lists the block indices resolved as tree header and tree nodes.         *)

IdleReader ==
    [op |-> "none", pc |-> "idle", name |-> <<>>, index |-> 0, cur |-> 0,
     depth |-> 0, nodes |-> <<>>, entries |-> <<>>, ok |-> FALSE,
     err |-> NoError, slice |-> None, found |-> NoIndex, vars |-> <<>>]

Failed(r, e) == [r EXCEPT !.pc = "done", !.ok = FALSE, !.err = e]

\* tree_entries without its comparison of the magic
TreeEntriesStartAnyMagic(d, a, name) ==
    LET r == [IdleReader EXCEPT !.op = "tree_entries", !.name = name]
        tree_index == variable_get(d, a, name)
        tree_data == index_get(d, a, tree_index.index)
    IN  IF ~tree_index.some THEN Failed(r, Error("TreeNotFound", 0, name))
        ELSE IF ~tree_data.some
        THEN Failed([r EXCEPT !.nodes = <<tree_index.index>>],
                    Error("IndexOutOfRange", tree_index.index, <<>>))
        ELSE IF Len(tree_data.val) < TREE_HEADER_SIZE
        THEN Failed([r EXCEPT !.nodes = <<tree_index.index>>],
                    Error("InvalidTreeMagic", 0, <<>>))
        ELSE IF ReadU32(tree_data.val, 4) # 1
        THEN Failed([r EXCEPT !.nodes = <<tree_index.index>>],
                    Error("InvalidTreeVersion", 0, <<>>))
        ELSE [r EXCEPT !.pc = "collect", !.nodes = <<tree_index.index>>,
                       !.cur = ReadU32(tree_data.val, 8)]

\* tree_entries(variable_name) up to its call of collect_tree_entries
TreeEntriesStart(d, a, name) ==
    LET r == [IdleReader EXCEPT !.op = "tree_entries", !.name = name]
        tree_index == variable_get(d, a, name)
        tree_data == index_get(d, a, tree_index.index)
    IN  IF ~tree_index.some THEN Failed(r, Error("TreeNotFound", 0, name))
        ELSE IF ~tree_data.some
        THEN Failed([r EXCEPT !.nodes = <<tree_index.index>>],
                    Error("IndexOutOfRange", tree_index.index, <<>>))
        ELSE IF Len(tree_data.val) < TREE_HEADER_SIZE
        THEN Failed([r EXCEPT !.nodes = <<tree_index.index>>],
                    Error("InvalidTreeMagic", 0, <<>>))
        ELSE IF Slice(tree_data.val, 0, 4) # TREE_MAGIC
        THEN Failed([r EXCEPT !.nodes = <<tree_index.index>>],
                    Error("InvalidTreeMagic", 0, <<>>))
        ELSE IF ReadU32(tree_data.val, 4) # 1
        THEN Failed([r EXCEPT !.nodes = <<tree_index.index>>],
                    Error("InvalidTreeVersion", 0, <<>>))
        ELSE [r EXCEPT !.pc = "collect", !.nodes = <<tree_index.index>>,
                       !.cur = ReadU32(tree_data.val, 8)]

\* the leaf loop breaking one index pair early
LeafIterationsEarly(entry_data, count) ==
    LET overrun(i) == TREE_ENTRY_HEADER_SIZE + i * TREE_ENTRY_INDEX_SIZE
                      + TREE_ENTRY_INDEX_SIZE >= Len(entry_data)
    IN  CHOOSE i \in 0 .. count :
            /\ i = count \/ overrun(i)
            /\ i = 0 \/ ~overrun(i - 1)

\* the number of iterations of the leaf loop `for i in 0..count` that push
\* an entry: the loop breaks at the first i whose index pair would read past
\* the node
LeafIterations(entry_data, count) ==
    LET overrun(i) == TREE_ENTRY_HEADER_SIZE + i * TREE_ENTRY_INDEX_SIZE
                      + TREE_ENTRY_INDEX_SIZE > Len(entry_data)
    IN  CHOOSE i \in 0 .. count :
            /\ i = count \/ overrun(i)
            /\ i = 0 \/ ~overrun(i - 1)

\* a node lookup that takes a missing block for an empty one
NodeGetLenient(d, a, index) ==
    LET got == index_get(d, a, index)
    IN  IF got.some THEN got ELSE Some(<<>>)

\* index_get(entry_index) of collect_tree_entries
NodeGet(d, a, index) == index_get(d, a, index)

\* index_get(index).unwrap_or(&[])
GetOrEmpty(d, a, index) ==
    LET got == index_get(d, a, index) IN IF got.some THEN got.val ELSE <<>>

\* the leaf loop reading key_index before value_index
LeafEntriesKeyFirst(d, a, entry_data, count) ==
    [i \in 1 .. LeafIterations(entry_data, count) |->
        LET idx_offset ==
                TREE_ENTRY_HEADER_SIZE + (i - 1) * TREE_ENTRY_INDEX_SIZE
            key_index == ReadU32(entry_data, idx_offset)
            value_index == ReadU32(entry_data, idx_offset + 4)
        IN  [key |-> GetOrEmpty(d, a, key_index),
             value |-> GetOrEmpty(d, a, value_index)]]

\* the entries the leaf loop pushes
LeafEntries(d, a, entry_data, count) ==
    [i \in 1 .. LeafIterations(entry_data, count) |->
        LET idx_offset ==
                TREE_ENTRY_HEADER_SIZE + (i - 1) * TREE_ENTRY_INDEX_SIZE
            value_index == ReadU32(entry_data, idx_offset)
            key_index == ReadU32(entry_data, idx_offset + 4)
        IN  [key |-> GetOrEmpty(d, a, key_index),
             value |-> GetOrEmpty(d, a, value_index)]]

\* collect_tree_entries with a guard: it returns at a node it was invoked on
\* before
CollectVisitGuarded(d, a, r) ==
    LET entry_data == NodeGet(d, a, r.cur)
        visited == [r EXCEPT !.depth = r.depth + 1,
                             !.nodes = Append(r.nodes, r.cur)]
    IN  IF \E k \in 2 .. Len(r.nodes) : r.nodes[k] = r.cur
        THEN [visited EXCEPT !.pc = "done", !.ok = TRUE]
        ELSE IF ~entry_data.some
        THEN Failed(visited, Error("IndexOutOfRange", r.cur, <<>>))
        ELSE IF Len(entry_data.val) < TREE_ENTRY_HEADER_SIZE
        THEN Failed(visited, Error("DataOutOfBounds", 0, <<>>))
        ELSE LET is_leaf == ReadU16(entry_data.val, 0)
                 count == ReadU16(entry_data.val, 2)
                 forward == ReadU32(entry_data.val, 4)
             IN  IF is_leaf = 0
                 THEN IF /\ count > 0
                         /\ Len(entry_data.val) >=
                                TREE_ENTRY_HEADER_SIZE + TREE_ENTRY_INDEX_SIZE
                      THEN [visited EXCEPT
                              !.cur = ReadU32(entry_data.val,
                                              TREE_ENTRY_HEADER_SIZE)]
                      ELSE [visited EXCEPT !.pc = "done", !.ok = TRUE]
                 ELSE LET entries == r.entries
                                     \o LeafEntries(d, a, entry_data.val, count)
                      IN  IF forward # 0
                          THEN [visited EXCEPT !.entries = entries,
                                               !.cur = forward]
                          ELSE [visited EXCEPT !.entries = entries,
                                               !.pc = "done", !.ok = TRUE]

\* collect_tree_entries following the last child entry of a non-leaf
CollectVisitLastChild(d, a, r) ==
    LET entry_data == NodeGet(d, a, r.cur)
        visited == [r EXCEPT !.depth = r.depth + 1,
                             !.nodes = Append(r.nodes, r.cur)]
    IN  IF ~entry_data.some
        THEN Failed(visited, Error("IndexOutOfRange", r.cur, <<>>))
        ELSE IF Len(entry_data.val) < TREE_ENTRY_HEADER_SIZE
        THEN Failed(visited, Error("DataOutOfBounds", 0, <<>>))
        ELSE LET is_leaf == ReadU16(entry_data.val, 0)
                 count == ReadU16(entry_data.val, 2)
                 forward == ReadU32(entry_data.val, 4)
             IN  IF is_leaf = 0
                 THEN IF /\ count > 0
                         /\ Len(entry_data.val) >=
                                TREE_ENTRY_HEADER_SIZE
                                + count * TREE_ENTRY_INDEX_SIZE
                      THEN [visited EXCEPT
                              !.cur = ReadU32(entry_data.val,
                                              TREE_ENTRY_HEADER_SIZE
                                              + (count - 1)
                                                * TREE_ENTRY_INDEX_SIZE)]
                      ELSE [visited EXCEPT !.pc = "done", !.ok = TRUE]
                 ELSE LET entries == r.entries
                                     \o LeafEntries(d, a, entry_data.val, count)
                      IN  IF forward # 0
                          THEN [visited EXCEPT !.entries = entries,
                                               !.cur = forward]
                          ELSE [visited EXCEPT !.entries = entries,
                                               !.pc = "done", !.ok = TRUE]

\* one invocation of collect_tree_entries(r.cur, entries), up to the call it
\* makes on the next node or to its return
CollectVisit(d, a, r) ==
    LET entry_data == NodeGet(d, a, r.cur)
        visited == [r EXCEPT !.depth = r.depth + 1,
                             !.nodes = Append(r.nodes, r.cur)]
    IN  IF ~entry_data.some
        THEN Failed(visited, Error("IndexOutOfRange", r.cur, <<>>))
        ELSE IF Len(entry_data.val) < TREE_ENTRY_HEADER_SIZE
        THEN Failed(visited, Error("DataOutOfBounds", 0, <<>>))
        ELSE LET is_leaf == ReadU16(entry_data.val, 0)
                 count == ReadU16(entry_data.val, 2)
                 forward == ReadU32(entry_data.val, 4)
             IN  IF is_leaf = 0
                 THEN IF /\ count > 0
                         /\ Len(entry_data.val) >=
                                TREE_ENTRY_HEADER_SIZE + TREE_ENTRY_INDEX_SIZE
                      THEN [visited EXCEPT
                              !.cur = ReadU32(entry_data.val,
                                              TREE_ENTRY_HEADER_SIZE)]
                      ELSE [visited EXCEPT !.pc = "done", !.ok = TRUE]
                 ELSE LET entries == r.entries
                                     \o LeafEntries(d, a, entry_data.val, count)
                      IN  IF forward # 0
                          THEN [visited EXCEPT !.entries = entries,
                                               !.cur = forward]
                          ELSE [visited EXCEPT !.entries = entries,
                                               !.pc = "done", !.ok = TRUE]

----------------------------------------------------------------------------
(* mod paths: PathInfo2, FileKey and resolve_path.  A String is the sequence *)
(* of its UTF-8 bytes; a HashMap<u32, (u32, String)> is a function from the *)
(* ids it holds to <<parent, name>>.  u32 fields are below 2^31 (ReadU32).   *)

\* Option<PathInfo2>, Option<FileKey>
NoRecord == [some |-> FALSE]
SomeRecord(v) == [some |-> TRUE, val |-> v]

\* to_bytes without the device-type byte
PathInfo2ToBytesNoDevice(p) ==
    <<p.path_type, 0>> \o U16BE(p.architecture) \o U16BE(p.mode)
    \o U32BE(p.user) \o U32BE(p.group) \o U32BE(p.modtime) \o U32BE(p.size)
    \o U32BE(p.checksum) \o U32BE(Len(p.link_name)) \o p.link_name

\* PathInfo2::to_bytes
PathInfo2ToBytes(p) ==
    <<p.path_type, 0>> \o U16BE(p.architecture) \o U16BE(p.mode)
    \o U32BE(p.user) \o U32BE(p.group) \o U32BE(p.modtime) \o U32BE(p.size)
    \o <<1>> \o U32BE(p.checksum) \o U32BE(Len(p.link_name)) \o p.link_name

\* from_bytes asking for a byte more than the link name takes
PathInfo2FromBytesStrict(d) ==
    IF Len(d) < 22 THEN NoRecord
    ELSE SomeRecord(
           [path_type |-> d[1],
            architecture |-> ReadU16(d, 2),
            mode |-> ReadU16(d, 4),
            user |-> ReadU32(d, 6),
            group |-> ReadU32(d, 10),
            modtime |-> ReadU32(d, 14),
            size |-> ReadU32(d, 18),
            checksum |-> IF Len(d) >= 27 THEN ReadU32(d, 23) ELSE 0,
            link_name |->
                IF Len(d) >= 31
                THEN LET link_len == ReadU32(d, 27)
                     IN  IF Len(d) - 31 > link_len
                         THEN Utf8Lossy(Slice(d, 31, 31 + link_len))
                         ELSE <<>>
                ELSE <<>>])

\* PathInfo2::from_bytes; data.len() >= 31 + link_len is written without
\* forming the sum
PathInfo2FromBytes(d) ==
    IF Len(d) < 22 THEN NoRecord
    ELSE SomeRecord(
           [path_type |-> d[1],
            architecture |-> ReadU16(d, 2),
            mode |-> ReadU16(d, 4),
            user |-> ReadU32(d, 6),
            group |-> ReadU32(d, 10),
            modtime |-> ReadU32(d, 14),
            size |-> ReadU32(d, 18),
            checksum |-> IF Len(d) >= 27 THEN ReadU32(d, 23) ELSE 0,
            link_name |->
                IF Len(d) >= 31
                THEN LET link_len == ReadU32(d, 27)
                     IN  IF Len(d) - 31 >= link_len
                         THEN Utf8Lossy(Slice(d, 31, 31 + link_len))
                         ELSE <<>>
                ELSE <<>>])

\* PathInfo1::to_bytes
PathInfo1ToBytes(q) == U32BE(q.id) \o U32BE(q.index)

\* PathInfo1::from_bytes
PathInfo1FromBytes(d) ==
    IF Len(d) < 8 THEN NoRecord
    ELSE SomeRecord([id |-> ReadU32(d, 0), index |-> ReadU32(d, 4)])

\* to_bytes without the terminator
FileKeyToBytesUnterminated(k) == U32BE(k.parent) \o k.name

\* FileKey::to_bytes
FileKeyToBytes(k) == (U32BE(k.parent) \o k.name) \o <<0>>

\* name_bytes.iter().position(|&b| b == 0).unwrap_or(name_bytes.len())
NameEnd(name_bytes) ==
    LET nuls == {i \in 1 .. Len(name_bytes) : name_bytes[i] = 0}
    IN  IF nuls = {} THEN Len(name_bytes)
        ELSE (CHOOSE i \in nuls : \A j \in nuls : i <= j) - 1

\* FileKey::from_bytes
FileKeyFromBytes(d) ==
    IF Len(d) < 5 THEN NoRecord
    ELSE LET name_bytes == SubSeq(d, 5, Len(d))
         IN  SomeRecord(
               [parent |-> ReadU32(d, 0),
                name |-> Utf8Lossy(SubSeq(name_bytes, 1, NameEnd(name_bytes)))])

\* files.get(&id)
NoEntry == <<>>
FilesGet(files, id) == IF id \in DOMAIN files THEN files[id] ELSE NoEntry

\* resolve_path(file_key, files) up to its loop
ResolveStart(file_key, files) ==
    [op |-> "resolve_path", pc |-> "loop", key |-> file_key, files |-> files,
     path |-> file_key.name, next |-> file_key.parent, steps |-> 0]

\* the id the loop looks up in iteration n (counted from 0) of the call c
RECURSIVE LookedUp(_, _)
LookedUp(c, n) ==
    IF n = 0 THEN c.key.parent
    ELSE FilesGet(c.files, LookedUp(c, n - 1))[1]

\* the loop with a guard: it ends at an id it has looked up before
ResolveIterationGuarded(c) ==
    LET got == FilesGet(c.files, c.next)
    IN  IF got = NoEntry \/ \E n \in 0 .. c.steps - 1 : LookedUp(c, n) = c.next
        THEN [c EXCEPT !.pc = "done"]
        ELSE [c EXCEPT !.path = (got[2] \o <<47>>) \o c.path,
                       !.next = got[1],
                       !.steps = c.steps + 1]

\* the loop putting the ancestor's name behind the path
ResolveIterationAppending(c) ==
    LET got == FilesGet(c.files, c.next)
    IN  IF got = NoEntry THEN [c EXCEPT !.pc = "done"]
        ELSE [c EXCEPT !.path = (c.path \o <<47>>) \o got[2],
                       !.next = got[1],
                       !.steps = c.steps + 1]

\* one evaluation of `while let Some((parent, name)) = files.get(&next)` and,
\* on Some, of the loop body; on None the function returns path
ResolveIteration(c) ==
    LET got == FilesGet(c.files, c.next)
    IN  IF got = NoEntry THEN [c EXCEPT !.pc = "done"]
        ELSE [c EXCEPT !.path = (got[2] \o <<47>>) \o c.path,
                       !.next = got[1],
                       !.steps = c.steps + 1]

----------------------------------------------------------------------------
(* mkbom: build_bom, up to its build_tree call.  A path is the sequence of  *)
(* its bytes.                                                               *)

Dot == <<46>>       \* "."

\* path.rfind('/'), counted from 0; -1 for None
RFindSlash(path) ==
    LET at == {i \in 1 .. Len(path) : path[i] = 47}
    IN  IF at = {} THEN 0 - 1
        ELSE (CHOOSE i \in at : \A j \in at : j <= i) - 1

\* (parent_path, name) of an entry's path
SplitPath(path) ==
    IF path = Dot THEN << <<>>, Dot >>
    ELSE IF RFindSlash(path) >= 0
    THEN LET pos == RFindSlash(path)
             parent == SubSeq(path, 1, pos)
             name == SubSeq(path, pos + 2, Len(path))
         IN  IF parent = <<>> THEN <<Dot, name>> ELSE <<parent, name>>
    ELSE <<Dot, path>>

\* the loop of build_bom over the first n entries: path_id_map, next_id, and
\* the (key, value) pairs pushed to tree_entries.  The PathInfo2 block of
\* entry n is the n-th block the writer is handed, which add_block puts at
\* index n.
RECURSIVE BuildBomLoop(_, _)
BuildBomLoop(paths, n) ==
    IF n = 0
    THEN [path_id_map |-> <<>>, next_id |-> 0, tree_entries |-> <<>>]
    ELSE LET before == BuildBomLoop(paths, n - 1)
             path == paths[n]
             parent_path == SplitPath(path)[1]
             name == SplitPath(path)[2]
             my_id == before.next_id
             path_id_map ==
                 [p \in DOMAIN before.path_id_map \cup {path} |->
                     IF p = path THEN my_id ELSE before.path_id_map[p]]
             parent_id ==
                 IF path = Dot THEN 0
                 ELSE IF parent_path \in DOMAIN path_id_map
                 THEN path_id_map[parent_path]
                 ELSE 0
             info2_idx == n
             info1 == [id |-> my_id, index |-> info2_idx]
             file_key == [parent |-> parent_id, name |-> name]
         IN  [path_id_map |-> path_id_map,
              next_id |-> my_id + 1,
              tree_entries |->
                  Append(before.tree_entries,
                         <<FileKeyToBytes(file_key), PathInfo1ToBytes(info1)>>)]

\* the tree_entries build_bom hands to build_tree
BuildBomEntries(paths) == BuildBomLoop(paths, Len(paths)).tree_entries

----------------------------------------------------------------------------
(* lsbom: the loop of main over the entries of the "Paths" tree, with no    *)
(* filter set.  The PathInfo2 block of every entry is taken to be there.    *)

\* main up to the loop, on the (key, value) pairs tree_entries returned
LsbomStart(entries) ==
    [op |-> "lsbom", pc |-> IF entries = <<>> THEN "end" ELSE "entry",
     entries |-> entries, k |-> 1, files |-> <<>>, collected |-> <<>>,
     key |-> [parent |-> 0, name |-> <<>>], path |-> <<>>, next |-> 0,
     steps |-> 0]

\* the loop goes on to its next entry
NextEntry(c) ==
    [c EXCEPT !.k = c.k + 1,
              !.pc = IF c.k + 1 <= Len(c.entries) THEN "entry" ELSE "end"]

\* files.insert(id, (parent, name))
FilesInsert(files, id, parent, name) ==
    [i \in DOMAIN files \cup {id} |->
        IF i = id THEN <<parent, name>> ELSE files[i]]

\* the body of the loop on entry k, up to the loop of resolve_path
LsbomBody(c) ==
    LET entry == c.entries[c.k]
        file_key == FileKeyFromBytes(entry[1])
        path_info_1 == PathInfo1FromBytes(entry[2])
    IN  IF ~file_key.some \/ ~path_info_1.some THEN NextEntry(c)
        ELSE LET files == FilesInsert(c.files, path_info_1.val.id,
                                      file_key.val.parent, file_key.val.name)
                 call == ResolveStart(file_key.val, files)
             IN  [c EXCEPT !.files = files, !.pc = "loop",
                           !.key = call.key, !.path = call.path,
                           !.next = call.next, !.steps = 0]

\* collected.push((path, path_info_2))
LsbomPush(c) == NextEntry([c EXCEPT !.collected = Append(c.collected, c.path)])

----------------------------------------------------------------------------
(* Inputs *)

Paths == <<80, 97, 116, 104, 115>>              \* "Paths"
HLIndex == <<72, 76, 73, 110, 100, 101, 120>>   \* "HLIndex"
\* a name of 256 bytes, one more than the name_len byte of a record counts
LongName == [i \in 1 .. U8 |-> 97]
VarNames == {Paths, HLIndex}
AllNames == VarNames \cup {LongName}

\* short entry lists of (key, value) pairs: the empty list and the prefixes
\* of a list that has an empty value and a repeated pair
SmallPair(i) == IF i % 3 = 1 THEN << <<1>>, <<>> >> ELSE << <<2, 3>>, <<4>> >>
SmallLists == {[i \in 1 .. n |-> SmallPair(i)] : n \in 0 .. MaxSmallLen}

\* entry lists around the leaf size: n pairs with distinct keys
BulkList(n) == [i \in 1 .. n |-> << <<i \div 256, i % 256>>, <<(7 * i) % 256>> >>]
BulkLens == {ENTRIES_PER_LEAF, 300, 2 * ENTRIES_PER_LEAF + 1}
BulkLists == {BulkList(n) : n \in BulkLens}

\* blocks handed to add_block: a payload byte, and a block that begins like
\* a tree header of version 2 but stops after the version
BlockData == { <<7>>, TREE_MAGIC \o U32BE(2) }

\* bytes a corrupted buffer gets, and the block indices index_get is asked
PokeBytes == {0, 127}
ProbeIndices == {1, 3}

\* lengths of the zero-filled buffers of test_too_small and test_invalid_magic
BlankLens == {4, 64}

\* names of path records: "usr", "bin", "ls"
Usr == <<117, 115, 114>>
Bin == <<98, 105, 110>>
Ls == <<108, 115>>

\* the id -> (parent, name) maps resolve_path is handed: every map over the
\* ids 5 and 6 whose parents are 0 (no record), 5 or 6, cyclic ones included
FileIds == {5, 6}
ParentIds == {0, 5, 6}
FileMaps == UNION {[S -> ParentIds \X {Usr, Bin}] : S \in SUBSET FileIds}
FileKeys == [parent : ParentIds, name : {Ls}]

\* a PathInfo2 record of a symbolic link, and the buffers from_bytes is
\* handed: its encoding cut to every length, with another link_len, with a
\* link name that is not UTF-8, and with a byte after the link name
SampleInfo2 ==
    [path_type |-> 3, architecture |-> 0, mode |-> 41453, user |-> 501,
     group |-> 20, modtime |-> 1, size |-> 2, checksum |-> 305419896,
     link_name |-> <<97, 98>>]
Info2Bytes == PathInfo2ToBytes(SampleInfo2)
Info2Buffers ==
    {SubSeq(Info2Bytes, 1, n) : n \in 0 .. Len(Info2Bytes)}
    \cup {[Info2Bytes EXCEPT ![31] = b] : b \in {0, 1, 3, 127}}
    \cup {[Info2Bytes EXCEPT ![28] = 128], [Info2Bytes EXCEPT ![32] = 255],
          Info2Bytes \o <<99>>}

\* the keys to_bytes is handed: names that are empty, ASCII, two bytes of
\* UTF-8, and with a NUL inside
KeyNames == {<<>>, Ls, <<195, 169>>, <<97, 0, 98>>}
KeyParents == {0, 6, 2147483647}
RoundKeys == [parent : KeyParents, name : KeyNames]

\* buffers FileKey::from_bytes is handed that to_bytes did not write: too
\* short, without a terminator, and with a name that is not UTF-8
KeyBuffers ==
    {<<>>, <<0, 0, 0, 6>>, <<0, 0, 0, 6, 97>>, <<0, 0, 0, 6, 255, 0>>,
     <<0, 0, 0, 6, 97, 0, 98, 0>>}

\* node blocks put together by hand.  A leaf holds ptr as its forward field;
\* a non-leaf holds ptr as the value_index of its first pair and the index
\* of the first node block as its forward field.
ChainNode(n) ==
    U16BE(IF n.leaf THEN 1 ELSE 0) \o U16BE(n.count)
    \o U32BE(IF n.leaf THEN n.ptr ELSE 2) \o U32BE(0)
    \o U32BE(IF n.leaf THEN 0 ELSE n.ptr) \o U32BE(0)

\* the trees of 1 .. MaxChain such nodes, at the block indices 2, 3, ...:
\* every pointer is 0, the tree header (1), a node, or an index without block
NodeShapes(m) == [leaf : BOOLEAN, count : {0, 1}, ptr : 0 .. m + 2]
ChainShapes == UNION {[1 .. m -> NodeShapes(m)] : m \in 1 .. MaxChain}

\* leaves put together by hand over the blocks 2 = <<9>> and 3 = <<5>>: a
\* leaf is the list of its (value_index, key_index) pairs; 7 has no block
LeafNode(pairs, forward) ==
    U16BE(1) \o U16BE(Len(pairs)) \o U32BE(forward) \o U32BE(0)
    \o ConcatRange([j \in 1 .. Len(pairs) |->
                       U32BE(pairs[j][1]) \o U32BE(pairs[j][2])],
                   1, Len(pairs))
PairChoices == {<<2, 3>>, <<3, 2>>, <<2, 7>>, <<3, 3>>}
LeafLists == UNION {[1 .. n -> PairChoices] : n \in 0 .. MaxSmallLen}
\* one leaf, or two chained by the forward pointer of the first
LeafChains == {<<l>> : l \in LeafLists} \cup (LeafLists \X LeafLists)

\* a non-leaf root put together by hand: the count it declares, its forward
\* field, the value_index of its first and of its second child entry, and
\* whether the block holds the two child entries or ends after its header.
\* 3 and 4 are leaves of one entry each, 9 has no block.
BranchNode(n) ==
    U16BE(0) \o U16BE(n.count) \o U32BE(n.forward) \o U32BE(0)
    \o (IF n.held THEN U32BE(n.first) \o U32BE(0) \o U32BE(n.second) \o U32BE(0)
        ELSE <<>>)
BranchShapes ==
    [count : {0, 1, 2}, forward : {0, 3, 4}, first : {3, 4, 9},
     second : {3, 4, 9}, held : BOOLEAN]

\* the entries of the tree a writer holds from the start, and the lists
\* build_tree is handed afterwards: one pair, and a list of two leaves
FirstTree == [i \in 1 .. 2 |-> SmallPair(i + 1)]
LaterLists == {<<SmallPair(1)>>, BulkList(300)}

\* the entry paths build_bom is handed: lists of up to MaxPaths paths out
\* of ".", "./usr", "./usr/bin", "usr" and "usr/bin"
UsrPath == Dot \o <<47>> \o Usr
EntryPaths ==
    {Dot, UsrPath, UsrPath \o <<47>> \o Bin, Usr, Usr \o <<47>> \o Bin}
PathLists == UNION {[1 .. n -> EntryPaths] : n \in 0 .. MaxPaths}

\* the pair of a "Paths" tree for the record id under parent
PathEntry(id, parent, name) ==
    <<FileKeyToBytes([parent |-> parent, name |-> name]),
      PathInfo1ToBytes([id |-> id, index |-> id])>>

\* the records of "usr", "usr/bin" and "usr/bin/ls", and every ordering of
\* every subset of them
TreeRecords ==
    {PathEntry(1, 0, Usr), PathEntry(2, 1, Bin), PathEntry(3, 2, Ls)}
Orderings ==
    {s \in UNION {[1 .. n -> TreeRecords] : n \in 0 .. 3} :
        \A i, j \in 1 .. Len(s) : s[i] = s[j] => i = j}

\* the records to_bytes is handed: PathInfo2 with the least and the greatest
\* value of the narrow fields, and link names that are empty, ASCII, two
\* bytes of UTF-8 and longer than 255 bytes; PathInfo1 likewise
LongLink == [i \in 1 .. 300 |-> 97]
LinkNames == {<<>>, <<97, 98>>, <<195, 169>>, LongLink}
Info2Records ==
    [path_type : {0, 3, 255}, architecture : {0, 65535}, mode : {41453},
     user : {0, 501}, group : {20}, modtime : {2147483647},
     size : {0, 65536}, checksum : {0, 305419896}, link_name : LinkNames]
Info1Records == [id : {0, 1, 2147483647}, index : {0, 258, 65536}]

\* the buffers PathInfo1::from_bytes is handed that to_bytes did not write:
\* of every length up to 9
Info1Buffers == {SubSeq(<<0, 0, 1, 2, 0, 0, 0, 7, 9>>, 1, n) : n \in 0 .. 9}

\* the calls of to_bytes and from_bytes on path records
InfoCalls ==
    {[op |-> "PathInfo2", pc |-> "encode", record |-> SomeRecord(p),
      bytes |-> <<>>, result |-> NoRecord] : p \in Info2Records}
    \cup {[op |-> "PathInfo1", pc |-> "encode", record |-> SomeRecord(q),
           bytes |-> <<>>, result |-> NoRecord] : q \in Info1Records}
    \cup {[op |-> "PathInfo1", pc |-> "decode", record |-> NoRecord,
           bytes |-> b, result |-> NoRecord] : b \in Info1Buffers}

\* the calls of module paths that are made
PathCalls ==
    {ResolveStart(k, f) : k \in FileKeys, f \in FileMaps}
    \cup {[op |-> "PathInfo2", pc |-> "decode", bytes |-> b,
           result |-> NoRecord] : b \in Info2Buffers}
    \cup {[op |-> "FileKey", pc |-> "encode", key |-> SomeRecord(k),
           bytes |-> <<>>, result |-> NoRecord] : k \in RoundKeys}
    \cup {[op |-> "FileKey", pc |-> "decode", key |-> NoRecord,
           bytes |-> b, result |-> NoRecord] : b \in KeyBuffers}

----------------------------------------------------------------------------
(* Actions *)

NoBuilt ==
    [called |-> FALSE, entries |-> <<>>, base |-> 0, leaf_indices |-> <<>>,
     root |-> 0]
NotLoaded == [ok |-> FALSE, err |-> NoError, val |-> NoBom]

\* no call of module paths has been made
NoCall == [op |-> "none", pc |-> "idle"]

Init ==
    /\ blocks = NewBlocks
    /\ variables = <<>>
    /\ panicked = FALSE
    /\ built = NoBuilt
    /\ nops = 0
    /\ phase = "write"
    /\ data = <<>>
    /\ touched = FALSE
    /\ bom = NotLoaded
    /\ rd = IdleReader
    /\ pcall = NoCall

Writing == phase = "write" /\ ~panicked /\ nops < MaxWriterOps

\* the writers of the model stop adding blocks once they hold a leaf's worth
Roomy == Len(blocks) < ENTRIES_PER_LEAF

\* BomWriter::add_block(data)
AddBlock(d) ==
    /\ Writing
    /\ Roomy
    /\ blocks' = Append(blocks, d)
    /\ nops' = nops + 1
    /\ UNCHANGED <<pcall, variables, panicked, built, phase, data, touched, bom, rd>>

\* BomWriter::add_variable(name, index)
AddVariable(name, index) ==
    /\ Writing
    /\ variables' = Append(variables, <<name, index>>)
    /\ nops' = nops + 1
    /\ UNCHANGED <<pcall, blocks, panicked, built, phase, data, touched, bom, rd>>

\* BomWriter::build_tree(entries), in a build with or without overflow checks
BuildTree(e, overflow_checks) ==
    /\ Writing
    /\ Roomy
    /\ LET call == build_tree(blocks, e, overflow_checks)
       IN  /\ panicked' = call.panic
           /\ blocks' = call.blocks
           /\ built' = [called |-> TRUE, entries |-> e,
                        base |-> NextIndex(blocks),
                        leaf_indices |-> call.leaf_indices, root |-> call.root]
    /\ nops' = nops + 1
    /\ UNCHANGED <<pcall, variables, phase, data, touched, bom, rd>>

\* a serialize call that takes the variables out of the writer
SerializeTaking ==
    /\ phase \in {"write", "buffer"}
    /\ ~panicked
    /\ ~touched
    /\ data' = serialize(blocks, variables)
    /\ phase' = IF phase = "write" THEN "buffer" ELSE "again"
    /\ variables' = <<>>
    /\ UNCHANGED <<pcall, blocks, panicked, built, nops, touched, bom, rd>>

\* BomWriter::serialize(): the first call of the driving program hands the
\* buffer on (phase "buffer"); a second call with no writer call between
\* ends the run (phase "again")
Serialize ==
    /\ phase \in {"write", "buffer"}
    /\ ~panicked
    /\ ~touched
    /\ data' = serialize(blocks, variables)
    /\ phase' = IF phase = "write" THEN "buffer" ELSE "again"
    /\ UNCHANGED <<pcall, blocks, variables, panicked, built, nops, touched, bom, rd>>

\* the reader is handed a zero-filled buffer no writer produced
Blank(n) ==
    /\ phase = "write"
    /\ nops = 0
    /\ data' = [i \in 1 .. n |-> 0]
    /\ phase' = "buffer"
    /\ UNCHANGED <<pcall, blocks, variables, panicked, built, nops, touched, bom, rd>>

\* the archive is damaged or crafted: one byte of the buffer is overwritten
Poke(off, b) ==
    /\ phase = "buffer"
    /\ ~touched
    /\ off < Len(data)
    /\ data[off + 1] # b
    /\ data' = [data EXCEPT ![off + 1] = b]
    /\ touched' = TRUE
    /\ UNCHANGED <<pcall, blocks, variables, panicked, built, nops, phase, bom, rd>>

\* the archive is cut short: only its first n bytes are left
Truncate(n) ==
    /\ phase = "buffer"
    /\ ~touched
    /\ n < Len(data)
    /\ data' = SubSeq(data, 1, n)
    /\ touched' = TRUE
    /\ UNCHANGED <<pcall, blocks, variables, panicked, built, nops, phase, bom, rd>>

\* Bom::load(data)
Load ==
    /\ phase = "buffer"
    /\ bom' = load(data)
    /\ phase' = "read"
    /\ UNCHANGED <<pcall, blocks, variables, panicked, built, nops, data, touched, rd>>

Reading == phase = "read" /\ bom.ok /\ rd.pc # "collect"

\* Bom::index_get(index)
IndexGet(index) ==
    /\ Reading
    /\ rd' = [IdleReader EXCEPT !.op = "index_get", !.pc = "done",
                                !.index = index,
                                !.slice = index_get(data, bom.val, index)]
    /\ UNCHANGED <<pcall, blocks, variables, panicked, built, nops, phase, data,
                   touched, bom>>

\* Bom::tree_entries(variable_name), up to its call of collect_tree_entries
TreeEntries(name) ==
    /\ Reading
    /\ rd' = TreeEntriesStart(data, bom.val, name)
    /\ UNCHANGED <<pcall, blocks, variables, panicked, built, nops, phase, data,
                   touched, bom>>

\* Bom::variable_get(name)
VariableGet(name) ==
    /\ Reading
    /\ rd' = [IdleReader EXCEPT !.op = "variable_get", !.pc = "done",
                                !.name = name,
                                !.found = variable_get(data, bom.val, name)]
    /\ UNCHANGED <<pcall, blocks, variables, panicked, built, nops, phase, data,
                   touched, bom>>

\* Bom::variables()
ListVariables ==
    /\ Reading
    /\ rd' = [IdleReader EXCEPT !.op = "variables", !.pc = "done",
                                !.vars = Variables(data, bom.val)]
    /\ UNCHANGED <<pcall, blocks, variables, panicked, built, nops, phase, data,
                   touched, bom>>

\* one invocation of collect_tree_entries
Collect ==
    /\ phase = "read"
    /\ rd.pc = "collect"
    /\ rd.depth < MaxDepth
    /\ rd' = CollectVisit(data, bom.val, rd)
    /\ UNCHANGED <<pcall, blocks, variables, panicked, built, nops, phase, data,
                   touched, bom>>

\* the indices add_variable is handed: the last block added, the root the
\* last build_tree call returned, and an index no block has yet
LastBlock == {Len(blocks) - 1}
VarIndices == {Len(blocks) - 1, built.root, Len(blocks)}

ReaderNext(names) ==
    \/ Load
    \/ \E index \in ProbeIndices : IndexGet(index)
    \/ \E name \in names : TreeEntries(name)
    \/ Collect

\* the entry lists build_tree is handed: the short ones, and the long ones
\* while the writer holds no variable and at most one block of its own
TreeLists ==
    IF variables = <<>> /\ Len(blocks) <= Len(NewBlocks) + 1
    THEN SmallLists \cup BulkLists
    ELSE SmallLists

\* A writer fills an archive, serializes it, and a reader loads and reads it.
Next ==
    \/ \E d \in BlockData : AddBlock(d)
    \/ \E name \in VarNames, index \in VarIndices : AddVariable(name, index)
    \/ \E e \in TreeLists, oc \in BOOLEAN : BuildTree(e, oc)
    \/ Serialize
    \/ ReaderNext(VarNames)

Spec == Init /\ [][Next]_vars

\* the entry lists of one leaf, and while the writer holds no variable and
\* at most one block of its own a list of two leaves
BuiltLists ==
    IF variables = <<>> /\ Len(blocks) <= Len(NewBlocks) + 1
    THEN SmallLists \cup {BulkList(ENTRIES_PER_LEAF + 1)}
    ELSE SmallLists

\* A writer builds trees, registers the tree built last as "Paths" and
\* serializes; a reader loads the archive and reads the tree.  An invocation
\* of collect_tree_entries that has been made runs.
NextBuilt ==
    \/ AddBlock(<<7>>)
    \/ \E e \in BuiltLists, oc \in BOOLEAN : BuildTree(e, oc)
    \/ AddVariable(Paths, built.root)
    \/ Serialize
    \/ Load
    \/ TreeEntries(Paths)
    \/ Collect

SpecBuilt == Init /\ [][NextBuilt]_vars /\ WF_vars(Collect)

\* The same, with short entry lists and one variable only, and the archive
\* may be damaged between the writer and the reader.
NextCrafted ==
    \/ AddBlock(TREE_MAGIC \o U32BE(2))
    \/ \E index \in LastBlock : AddVariable(Paths, index)
    \/ \E e \in SmallLists, oc \in BOOLEAN : BuildTree(e, oc)
    \/ Serialize
    \/ \E n \in BlankLens : Blank(n)
    \/ \E off \in 0 .. Len(data) - 1, b \in PokeBytes : Poke(off, b)
    \/ \E n \in 0 .. Len(data) - 1 : Truncate(n)
    \/ ReaderNext({Paths})
    \/ ListVariables

SpecCrafted == Init /\ [][NextCrafted]_vars

\* A writer registers variables, among them one whose name is too long for
\* the name_len byte, and a reader looks them up.
NextTable ==
    \/ \E d \in BlockData : AddBlock(d)
    \/ \E name \in AllNames, index \in VarIndices : AddVariable(name, index)
    \/ \E e \in SmallLists, oc \in BOOLEAN : BuildTree(e, oc)
    \/ Serialize
    \/ Load
    \/ \E name \in AllNames : VariableGet(name)
    \/ ListVariables

SpecTable == Init /\ [][NextTable]_vars

\* A writer is handed a tree header and node blocks put together by hand:
\* add_block of each, add_variable("Paths", 1) and serialize.
Craft(shape) ==
    /\ phase = "write"
    /\ nops = 0
    /\ LET b == (NewBlocks \o <<TreeHeader(2, 0)>>)
                \o [i \in 1 .. Len(shape) |-> ChainNode(shape[i])]
           vs == <<<<Paths, 1>>>>
       IN  /\ blocks' = b
           /\ variables' = vs
           /\ data' = serialize(b, vs)
    /\ phase' = "buffer"
    /\ UNCHANGED <<pcall, panicked, built, nops, touched, bom, rd>>

\* Such an archive is loaded and its tree is read.  An invocation of
\* collect_tree_entries that has been made runs.
NextChain ==
    \/ \E shape \in ChainShapes : Craft(shape)
    \/ Load
    \/ TreeEntries(Paths)
    \/ Collect

SpecChain == Init /\ [][NextChain]_vars /\ WF_vars(Collect)

\* A writer is handed two payload blocks, a tree header and leaves put
\* together by hand: add_block of each, add_variable("Paths", 1), serialize.
CraftLeaves(chain) ==
    /\ phase = "write"
    /\ nops = 0
    /\ LET b == (NewBlocks \o <<TreeHeader(4, 0), <<9>>, <<5>> >>)
                \o [i \in 1 .. Len(chain) |->
                       LeafNode(chain[i], IF i < Len(chain) THEN 4 + i ELSE 0)]
           vs == <<<<Paths, 1>>>>
       IN  /\ blocks' = b
           /\ variables' = vs
           /\ data' = serialize(b, vs)
    /\ phase' = "buffer"
    /\ UNCHANGED <<pcall, panicked, built, nops, touched, bom, rd>>

\* Such an archive is loaded and its tree is read.
NextLeaves ==
    \/ \E chain \in LeafChains : CraftLeaves(chain)
    \/ Load
    \/ TreeEntries(Paths)
    \/ Collect

SpecLeaves == Init /\ [][NextLeaves]_vars

\* A writer is handed a tree whose root is a non-leaf put together by hand,
\* over two leaves of one entry each: add_block of each,
\* add_variable("Paths", 1), serialize.
CraftBranch(n) ==
    /\ phase = "write"
    /\ nops = 0
    /\ LET b == NewBlocks
                \o <<TreeHeader(2, 2), BranchNode(n),
                     LeafNode(<<<<5, 6>>>>, 0), LeafNode(<<<<6, 5>>>>, 0),
                     <<9>>, <<5>> >>
           vs == <<<<Paths, 1>>>>
       IN  /\ blocks' = b
           /\ variables' = vs
           /\ data' = serialize(b, vs)
    /\ phase' = "buffer"
    /\ UNCHANGED <<pcall, panicked, built, nops, touched, bom, rd>>

\* Such an archive is loaded and its tree is read.
NextBranch ==
    \/ \E n \in BranchShapes : CraftBranch(n)
    \/ Load
    \/ TreeEntries(Paths)
    \/ Collect

SpecBranch == Init /\ [][NextBranch]_vars

\* The writer of build_bom after `let tree_idx = writer.build_tree(..);
\* writer.add_variable("Paths", tree_idx);`, with or without a block added
\* before: it holds the tree of FirstTree, registered as "Paths".
InitTrees ==
    /\ \E pre \in {<<>>, << <<7>> >>} :
          LET call == build_tree(NewBlocks \o pre, FirstTree, TRUE)
          IN  /\ blocks = call.blocks
              /\ variables = <<<<Paths, call.root>>>>
    /\ panicked = FALSE
    /\ built = NoBuilt
    /\ nops = 0
    /\ phase = "write"
    /\ data = <<>>
    /\ touched = FALSE
    /\ bom = NotLoaded
    /\ rd = IdleReader
    /\ pcall = NoCall

\* Blocks and further trees are added to it and registered, and the archive
\* is read.
NextTrees ==
    \/ AddBlock(<<7>>)
    \/ \E index \in VarIndices : AddVariable(HLIndex, index)
    \/ \E e \in LaterLists, oc \in BOOLEAN : BuildTree(e, oc)
    \/ Serialize
    \/ Load
    \/ \E name \in VarNames : TreeEntries(name)
    \/ Collect

SpecTrees == InitTrees /\ [][NextTrees]_vars

\* build_bom(entries) up to its build_tree call, and lsbom handed the pairs
BuildBom(paths) ==
    /\ pcall = NoCall
    /\ pcall' = LsbomStart(BuildBomEntries(paths))
    /\ UNCHANGED <<blocks, variables, panicked, built, nops, phase, data,
                   touched, bom, rd>>

\* the body of lsbom's loop on the next entry
LsbomEntry ==
    /\ pcall.op = "lsbom"
    /\ pcall.pc = "entry"
    /\ pcall' = LsbomBody(pcall)
    /\ UNCHANGED <<blocks, variables, panicked, built, nops, phase, data,
                   touched, bom, rd>>

\* one iteration of the loop of resolve_path called by lsbom, or its return
LsbomResolve ==
    /\ pcall.op = "lsbom"
    /\ pcall.pc = "loop"
    /\ pcall.steps < MaxSteps
    /\ pcall' = ResolveIteration(pcall)
    /\ UNCHANGED <<blocks, variables, panicked, built, nops, phase, data,
                   touched, bom, rd>>

\* resolve_path has returned: the path is collected
LsbomCollect ==
    /\ pcall.op = "lsbom"
    /\ pcall.pc = "done"
    /\ pcall' = LsbomPush(pcall)
    /\ UNCHANGED <<blocks, variables, panicked, built, nops, phase, data,
                   touched, bom, rd>>

\* lsbom on the pairs of a "Paths" tree in leaf-chain order
ReadEntries(entries) ==
    /\ pcall = NoCall
    /\ pcall' = LsbomStart(entries)
    /\ UNCHANGED <<blocks, variables, panicked, built, nops, phase, data,
                   touched, bom, rd>>

\* lsbom reads the records of mkbom, or the records of a tree in some order.
\* The loop of resolve_path keeps running while its condition holds.
NextLsbom ==
    \/ \E paths \in PathLists : BuildBom(paths)
    \/ \E entries \in Orderings : ReadEntries(entries)
    \/ LsbomEntry
    \/ LsbomResolve
    \/ LsbomCollect

SpecLsbom == Init /\ [][NextLsbom]_vars /\ WF_vars(LsbomResolve)

\* one iteration of the loop of resolve_path, or its return
ResolveStep ==
    /\ pcall.op = "resolve_path"
    /\ pcall.pc = "loop"
    /\ pcall.steps < MaxSteps
    /\ pcall' = ResolveIteration(pcall)
    /\ UNCHANGED <<blocks, variables, panicked, built, nops, phase, data,
                   touched, bom, rd>>

\* PathInfo2::from_bytes(bytes)
PathInfo2Decode ==
    /\ pcall.op = "PathInfo2"
    /\ pcall.pc = "decode"
    /\ pcall' = [pcall EXCEPT !.pc = "done",
                              !.result = PathInfo2FromBytes(pcall.bytes)]
    /\ UNCHANGED <<blocks, variables, panicked, built, nops, phase, data,
                   touched, bom, rd>>

\* key.to_bytes()
FileKeyEncode ==
    /\ pcall.op = "FileKey"
    /\ pcall.pc = "encode"
    /\ pcall' = [pcall EXCEPT !.pc = "decode",
                              !.bytes = FileKeyToBytes(pcall.key.val)]
    /\ UNCHANGED <<blocks, variables, panicked, built, nops, phase, data,
                   touched, bom, rd>>

\* FileKey::from_bytes(bytes)
FileKeyDecode ==
    /\ pcall.op = "FileKey"
    /\ pcall.pc = "decode"
    /\ pcall' = [pcall EXCEPT !.pc = "done",
                              !.result = FileKeyFromBytes(pcall.bytes)]
    /\ UNCHANGED <<blocks, variables, panicked, built, nops, phase, data,
                   touched, bom, rd>>

\* p.to_bytes() of a PathInfo2
PathInfo2Encode ==
    /\ pcall.op = "PathInfo2"
    /\ pcall.pc = "encode"
    /\ pcall' = [pcall EXCEPT !.pc = "decode",
                              !.bytes = PathInfo2ToBytes(pcall.record.val)]
    /\ UNCHANGED <<blocks, variables, panicked, built, nops, phase, data,
                   touched, bom, rd>>

\* q.to_bytes() of a PathInfo1
PathInfo1Encode ==
    /\ pcall.op = "PathInfo1"
    /\ pcall.pc = "encode"
    /\ pcall' = [pcall EXCEPT !.pc = "decode",
                              !.bytes = PathInfo1ToBytes(pcall.record.val)]
    /\ UNCHANGED <<blocks, variables, panicked, built, nops, phase, data,
                   touched, bom, rd>>

\* PathInfo1::from_bytes(bytes)
PathInfo1Decode ==
    /\ pcall.op = "PathInfo1"
    /\ pcall.pc = "decode"
    /\ pcall' = [pcall EXCEPT !.pc = "done",
                              !.result = PathInfo1FromBytes(pcall.bytes)]
    /\ UNCHANGED <<blocks, variables, panicked, built, nops, phase, data,
                   touched, bom, rd>>

\* A path record is encoded and decoded again, or a buffer is decoded.
InitInfo ==
    /\ blocks = NewBlocks
    /\ variables = <<>>
    /\ panicked = FALSE
    /\ built = NoBuilt
    /\ nops = 0
    /\ phase = "write"
    /\ data = <<>>
    /\ touched = FALSE
    /\ bom = NotLoaded
    /\ rd = IdleReader
    /\ pcall \in InfoCalls

NextInfo ==
    \/ PathInfo2Encode
    \/ PathInfo2Decode
    \/ PathInfo1Encode
    \/ PathInfo1Decode

SpecInfo == InitInfo /\ [][NextInfo]_vars

\* A call of module paths is made on each of the inputs.  The loop of
\* resolve_path keeps running while its condition holds.
InitPaths ==
    /\ blocks = NewBlocks
    /\ variables = <<>>
    /\ panicked = FALSE
    /\ built = NoBuilt
    /\ nops = 0
    /\ phase = "write"
    /\ data = <<>>
    /\ touched = FALSE
    /\ bom = NotLoaded
    /\ rd = IdleReader
    /\ pcall \in PathCalls

NextPaths ==
    \/ ResolveStep
    \/ PathInfo2Decode
    \/ FileKeyEncode
    \/ FileKeyDecode

SpecPaths == InitPaths /\ [][NextPaths]_vars /\ WF_vars(ResolveStep)

----------------------------------------------------------------------------
(* Properties of the writer *)

\* block i of the writer
Block(i) == blocks[i + 1]

\* the entries of a build_tree argument, as tree_entries returns them
AsTreeEntries(e) == [i \in 1 .. Len(e) |-> [key |-> e[i][1], value |-> e[i][2]]]

\* the first variable called name was registered with the root of the last
\* build_tree call
RegisteredRoot(name) ==
    \E k \in 1 .. Len(variables) :
        /\ variables[k] = <<name, built.root>>
        /\ \A j \in 1 .. k - 1 : variables[j][1] # name

\* the read of the last tree built has finished on an undamaged archive
ReadBack ==
    /\ built.called /\ ~panicked /\ ~touched
    /\ rd.op = "tree_entries" /\ rd.pc = "done"
    /\ RegisteredRoot(rd.name)

\* C1: build_tree returns for every entry list, the empty one included, and
\* after add_variable(name, root), serialize and load, tree_entries(name)
\* returns the pairs supplied, in the order supplied.
RoundTrip ==
    /\ built.called => ~panicked
    /\ ReadBack => rd.ok /\ rd.entries = AsTreeEntries(built.entries)

\* C2: build_tree on the empty list returns, having added one empty leaf
\* (is_leaf set, count 0, forward 0) and a tree header whose child_index is
\* that leaf and whose path_count is 0.
EmptyTreeWellFormed ==
    (built.called /\ built.entries = <<>>) =>
        /\ ~panicked
        /\ built.root = built.base + 1
        /\ Len(blocks) >= built.root + 1
        /\ Block(built.base) = <<0, 1, 0, 0, 0, 0, 0, 0, 0, 0, 0, 0>>
        /\ Slice(Block(built.root), 0, 4) = TREE_MAGIC
        /\ ReadU32(Block(built.root), 8) = built.base
        /\ ReadU32(Block(built.root), 16) = 0

\* ceil(n / ENTRIES_PER_LEAF)
LeavesNeeded(n) == (n + ENTRIES_PER_LEAF - 1) \div ENTRIES_PER_LEAF

\* C3: for n >= 1 entries build_tree returns having added exactly
\* ceil(n/256) leaf blocks (besides the 2n key and value blocks and the tree
\* header), each of at most 256 entries, together holding n entries; leaf i
\* points forward at leaf i + 1 and the last leaf's forward is 0.
LeafChaining ==
    (built.called /\ Len(built.entries) >= 1) =>
        LET n == Len(built.entries)
            leaves == built.leaf_indices
            k == Len(leaves)
            count(i) == ReadU16(Block(leaves[i]), 2)
        IN  /\ ~panicked
            /\ k = LeavesNeeded(n)
            /\ built.root - built.base + 1 = 2 * n + k + 1
            /\ \A i \in 1 .. k :
                /\ built.base <= leaves[i] /\ leaves[i] < built.root
                /\ ReadU16(Block(leaves[i]), 0) = 1
                /\ count(i) <= ENTRIES_PER_LEAF
                /\ count(i) = Min(ENTRIES_PER_LEAF, n - (i - 1) * ENTRIES_PER_LEAF)
                /\ Len(Block(leaves[i])) =
                       TREE_ENTRY_HEADER_SIZE + count(i) * TREE_ENTRY_INDEX_SIZE
                /\ ReadU32(Block(leaves[i]), 4) =
                       (IF i < k THEN leaves[i + 1] ELSE 0)
            /\ \A i \in 1 .. k - 1 : leaves[i] < leaves[i + 1]

\* C3 witness: 300 entries have been built into two chained leaves
LeafChainingWitness ==
    /\ built.called /\ ~panicked
    /\ Len(built.entries) = 300
    /\ Len(built.leaf_indices) = 2
    /\ ReadU32(Block(built.leaf_indices[1]), 4) = built.leaf_indices[2]

\* every name registered fits the name_len byte of its record
ShortNames == \A k \in 1 .. Len(variables) : Len(variables[k][1]) < U8

\* the round trip of C1 on the entry lists that are not empty, the names
\* being short
RoundTripNonEmpty ==
    (ReadBack /\ built.entries # <<>> /\ ShortNames) =>
        rd.ok /\ rd.entries = AsTreeEntries(built.entries)

----------------------------------------------------------------------------
(* Properties of Bom::load and Bom::index_get *)

Loaded == phase = "read" /\ bom.ok

\* the header fields of the buffer
HeaderIndexOffset == ReadU32(data, 16)
HeaderIndexLength == ReadU32(data, 20)
HeaderVariablesOffset == ReadU32(data, 24)
HeaderVariablesLength == ReadU32(data, 28)

\* the buffer has room for index_count index entries after the count
IndexTableInside ==
    LET room == Len(data) - bom.val.index_offset - 4
    IN  room >= 0 /\ bom.val.index_count <= room \div INDEX_ENTRY_SIZE

\* the index get was asked, its index-table entry, and whether the entry
\* lies inside the buffer
Probed == rd.op = "index_get"
ProbedEntry == bom.val.index_offset + 4 + rd.index * INDEX_ENTRY_SIZE
ProbedEntryInside == ProbedEntry + INDEX_ENTRY_SIZE <= Len(data)
ProbedAddress == ReadU32(data, ProbedEntry)
ProbedLength == ReadU32(data, ProbedEntry + 4)
ProbedBlockOutside ==
    ProbedLength > Len(data) \/ ProbedAddress > Len(data) - ProbedLength

\* C4: index_get(i) returns None when i >= index_count, when the index-table
\* entry of i lies outside the buffer, and when the entry's address + length
\* exceeds the buffer; a slice it returns is buffer[address .. address +
\* length] and ends inside the buffer.
IndexGetInBounds ==
    Probed =>
        /\ rd.index >= bom.val.index_count => ~rd.slice.some
        /\ ~ProbedEntryInside => ~rd.slice.some
        /\ (ProbedEntryInside /\ ProbedBlockOutside) => ~rd.slice.some
        /\ rd.slice.some =>
            /\ rd.index < bom.val.index_count
            /\ ProbedEntryInside
            /\ Len(rd.slice.val) = ProbedLength
            /\ ProbedAddress + Len(rd.slice.val) <= Len(data)
            /\ \A k \in 1 .. Len(rd.slice.val) :
                   rd.slice.val[k] = data[ProbedAddress + k]

\* C4 witness: a damaged archive whose entry for a valid index points past
\* the end of the buffer, and index_get returned None
IndexGetInBoundsWitness ==
    /\ Probed /\ touched
    /\ rd.index < bom.val.index_count
    /\ ProbedEntryInside /\ ProbedBlockOutside
    /\ ~rd.slice.some

\* C5 as claimed: every archive load returns has its whole index table,
\* index_count entries, and the variables count inside the buffer.
LoadedTableInside ==
    Loaded => IndexTableInside /\ bom.val.variables_offset + 4 <= Len(data)

\* C5 as amended: every archive load returns has index_offset + 4, the
\* declared index range and variables_offset + 4 inside the buffer, and its
\* fields are the header's; index_count is the u32 at index_offset, whatever
\* it is; a failed load returns no archive.
LoadedOffsetsInside ==
    phase = "read" =>
        /\ bom.ok =>
            /\ Len(data) >= HEADER_SIZE
            /\ bom.val.index_offset = HeaderIndexOffset
            /\ bom.val.variables_offset = HeaderVariablesOffset
            /\ bom.val.index_offset + 4 <= Len(data)
            /\ HeaderIndexLength <= Len(data) - bom.val.index_offset
            /\ bom.val.variables_offset + 4 <= Len(data)
            /\ bom.val.index_count = ReadU32(data, bom.val.index_offset)
        /\ ~bom.ok => bom.val = NoBom /\ bom.err.kind # "none"

\* C5 witness: load returned an archive whose index_count entries do not
\* fit in the buffer
LoadedOffsetsInsideWitness == Loaded /\ touched /\ ~IndexTableInside

\* the big-endian u32 at offset 8 of the buffer, when below 2^31
VersionField ==
    data[9] * 16777216 + data[10] * 65536 + data[11] * 256 + data[12]

MagicOk == SubSeq(data, 1, 8) = <<66, 79, 77, 83, 116, 111, 114, 101>>

\* C6: load fails with FileTooSmall on every buffer shorter than 32 bytes,
\* otherwise with InvalidMagic unless the buffer begins with "BOMStore",
\* otherwise with InvalidVersion(v) when the version field v is not 1.
HeaderCheckOrder ==
    phase = "read" =>
        /\ Len(data) < 32 => ~bom.ok /\ bom.err.kind = "FileTooSmall"
        /\ (Len(data) >= 32 /\ ~MagicOk) =>
               ~bom.ok /\ bom.err.kind = "InvalidMagic"
        /\ (Len(data) >= 32 /\ MagicOk /\ data[9] < 128 /\ VersionField # 1) =>
               /\ ~bom.ok
               /\ bom.err.kind = "InvalidVersion"
               /\ bom.err.index = VersionField

\* C6 witness: a buffer of 32 bytes or more with neither the magic nor the
\* version was refused for its magic
HeaderCheckOrderWitness ==
    /\ phase = "read" /\ Len(data) >= 32
    /\ ~MagicOk /\ VersionField # 1
    /\ bom.err.kind = "InvalidMagic"

HeaderOk == Len(data) >= 32 /\ MagicOk /\ data[9] < 128 /\ VersionField = 1

\* the range the header declares for the index, and for the variables,
\* exceeds the buffer
IndexRangeOutside ==
    \/ HeaderIndexLength > Len(data)
    \/ HeaderIndexOffset > Len(data) - HeaderIndexLength
VariablesRangeOutside ==
    \/ HeaderVariablesLength > Len(data)
    \/ HeaderVariablesOffset > Len(data) - HeaderVariablesLength

\* what load checks of the index and of the variables
IndexRefused ==
    \/ HeaderIndexOffset > Len(data) - 4
    \/ IndexRangeOutside
VariablesRefused == HeaderVariablesOffset > Len(data) - 4

\* C7 as claimed: with a valid magic and version, load fails with
\* IndexOutOfBounds when the declared index range exceeds the buffer, with
\* VariablesOutOfBounds when (the index passing) the declared variables
\* range does, and succeeds only when both ranges lie inside.
DeclaredRangesChecked ==
    (phase = "read" /\ HeaderOk) =>
        /\ IndexRangeOutside => ~bom.ok /\ bom.err.kind = "IndexOutOfBounds"
        /\ (~IndexRefused /\ VariablesRangeOutside) =>
               ~bom.ok /\ bom.err.kind = "VariablesOutOfBounds"
        /\ bom.ok => ~IndexRangeOutside /\ ~VariablesRangeOutside

\* C7 as amended: with a valid magic and version, load fails with
\* IndexOutOfBounds when index_offset + 4 or the declared index range
\* exceeds the buffer, otherwise with VariablesOutOfBounds when
\* variables_offset + 4 exceeds the buffer, and succeeds otherwise: the
\* declared variables length is not checked.
OffsetsChecked ==
    (phase = "read" /\ HeaderOk) =>
        /\ IndexRefused => ~bom.ok /\ bom.err.kind = "IndexOutOfBounds"
        /\ (~IndexRefused /\ VariablesRefused) =>
               ~bom.ok /\ bom.err.kind = "VariablesOutOfBounds"
        /\ (~IndexRefused /\ ~VariablesRefused) => bom.ok

\* C7 witness: load accepted an archive whose declared variables range
\* exceeds the buffer
OffsetsCheckedWitness == Loaded /\ HeaderOk /\ VariablesRangeOutside

----------------------------------------------------------------------------
(* Properties of Bom::tree_entries *)

\* a tree_entries call has returned
TreeRead == rd.op = "tree_entries" /\ rd.pc = "done"

\* the block of the k-th index the call resolved (k = 1: the tree header)
Resolved(k) == index_get(data, bom.val, rd.nodes[k])

\* the k-th index was resolved as a tree node, to a block that holds a node
\* header
IsNode(k) ==
    /\ k \in 2 .. Len(rd.nodes)
    /\ Resolved(k).some
    /\ Len(Resolved(k).val) >= 12
IsLeaf(k) == IsNode(k) /\ ReadU16(Resolved(k).val, 0) # 0

\* the count a node declares, and the number of index pairs its block holds
Declared(k) == ReadU16(Resolved(k).val, 2)
Held(k) == (Len(Resolved(k).val) - 12) \div 8
Fit(k) == Min(Declared(k), Held(k))

\* the indices of the j-th pair of leaf k
ValueIndex(k, j) == ReadU32(Resolved(k).val, 12 + 8 * (j - 1))
KeyIndex(k, j) == ReadU32(Resolved(k).val, 12 + 8 * (j - 1) + 4)

\* the number of entries the leaves before node k hold, and declare
RECURSIVE FitBefore(_)
FitBefore(k) ==
    IF k <= 2 THEN 0
    ELSE FitBefore(k - 1) + (IF IsLeaf(k - 1) THEN Fit(k - 1) ELSE 0)
RECURSIVE DeclaredBefore(_)
DeclaredBefore(k) ==
    IF k <= 2 THEN 0
    ELSE DeclaredBefore(k - 1) + (IF IsLeaf(k - 1) THEN Declared(k - 1) ELSE 0)

\* a pair of a visited leaf names a key or value block the archive lacks
MissingPair(k, j) ==
    \/ KeyIndex(k, j) >= bom.val.index_count
    \/ ValueIndex(k, j) >= bom.val.index_count
SomePairMissing ==
    \E k \in 2 .. Len(rd.nodes) :
        IsLeaf(k) /\ \E j \in 1 .. Fit(k) : MissingPair(k, j)

\* an index resolved as tree header or tree node that the archive lacks is
\* the last one resolved, and the call failed with IndexOutOfRange of it
MissingNodeFails ==
    \A k \in 1 .. Len(rd.nodes) :
        rd.nodes[k] >= bom.val.index_count =>
            /\ k = Len(rd.nodes)
            /\ ~rd.ok
            /\ rd.err.kind = "IndexOutOfRange"
            /\ rd.err.index = rd.nodes[k]

\* C8 as claimed: tree_entries fails with IndexOutOfRange(i) when the tree
\* header block, a child or forward node, or a leaf pair's key_index or
\* value_index is no index of the archive; it never returns Ok with a key or
\* value standing in for a missing block.
MissingIndexFails ==
    TreeRead =>
        /\ MissingNodeFails
        /\ SomePairMissing => ~rd.ok /\ rd.err.kind = "IndexOutOfRange"

\* C8 as amended: tree_entries fails with IndexOutOfRange(i) when the tree
\* header block or a child or forward node i is no index of the archive; a
\* leaf pair whose key_index or value_index is no index of the archive does
\* not fail the call: its entry is returned with an empty key or value.
MissingNodeFailsPairEmpty ==
    TreeRead =>
        /\ MissingNodeFails
        /\ rd.ok =>
            \A k \in 2 .. Len(rd.nodes) :
                IsLeaf(k) =>
                    \A j \in 1 .. Fit(k) :
                        LET entry == rd.entries[FitBefore(k) + j]
                        IN  /\ KeyIndex(k, j) >= bom.val.index_count =>
                                  entry.key = <<>>
                            /\ ValueIndex(k, j) >= bom.val.index_count =>
                                  entry.value = <<>>

\* C8 witness: tree_entries returned Ok although a pair of a leaf it read
\* names a block the archive lacks
MissingNodeFailsPairEmptyWitness == TreeRead /\ rd.ok /\ SomePairMissing

\* a visited node declares more index pairs than its block holds
SomeCountOverruns ==
    \E k \in 2 .. Len(rd.nodes) : IsNode(k) /\ Declared(k) > Held(k)

\* the entries the visited leaves declare, and hold
TotalDeclared == DeclaredBefore(Len(rd.nodes) + 1)
TotalFit == FitBefore(Len(rd.nodes) + 1)

\* C9 as claimed: tree_entries fails with DataOutOfBounds when a node's
\* declared count overruns the node's block (12 + 8 * count > length); it
\* never returns Ok with fewer entries than the leaves declare.
CountOverrunFails ==
    TreeRead =>
        /\ SomeCountOverruns => ~rd.ok /\ rd.err.kind = "DataOutOfBounds"
        /\ rd.ok => Len(rd.entries) >= TotalDeclared

\* C9 as amended: tree_entries fails with DataOutOfBounds when a node's
\* block is shorter than the 12-byte node header; a leaf whose declared
\* count overruns its block yields, without an error, the entries of the
\* index pairs the block holds: min(count, (length - 12) div 8) of them.
ShortNodeFails ==
    TreeRead =>
        /\ \A k \in 2 .. Len(rd.nodes) :
               (Resolved(k).some /\ Len(Resolved(k).val) < 12) =>
                   /\ k = Len(rd.nodes)
                   /\ ~rd.ok
                   /\ rd.err.kind = "DataOutOfBounds"
        /\ rd.ok => Len(rd.entries) = TotalFit

\* C9 witness: tree_entries returned Ok with fewer entries than a leaf it
\* read declares
ShortNodeFailsWitness ==
    /\ TreeRead /\ rd.ok
    /\ \E k \in 2 .. Len(rd.nodes) : IsLeaf(k) /\ Declared(k) > Held(k)
    /\ Len(rd.entries) < TotalDeclared

\* the names of the variables table of the loaded archive
TableNames ==
    {Variables(data, bom.val)[k].name :
        k \in 1 .. Len(Variables(data, bom.val))}

\* the block of the variable asked for was resolved
HeaderResolved == rd.nodes # <<>> /\ Resolved(1).some
BeginsWithTree(b) == Len(b) >= 4 /\ SubSeq(b, 1, 4) = <<116, 114, 101, 101>>
FailedBeforeNodes(kind) ==
    /\ rd.pc = "done" /\ ~rd.ok
    /\ rd.err.kind = kind
    /\ rd.depth = 0

\* no variable of the name: TreeNotFound(name)
AbsentNotFound ==
    rd.name \notin TableNames =>
        FailedBeforeNodes("TreeNotFound") /\ rd.err.name = rd.name

\* C10 as claimed: tree_entries(name) fails with TreeNotFound(name) when no
\* variable has the name; otherwise with InvalidTreeMagic when the
\* variable's block does not begin with "tree", and with InvalidTreeVersion
\* when it does and the version at offset 4 is not 1; no node is read before.
TreeHeaderChecked ==
    rd.op = "tree_entries" =>
        /\ AbsentNotFound
        /\ HeaderResolved =>
            LET b == Resolved(1).val
            IN  /\ ~BeginsWithTree(b) => FailedBeforeNodes("InvalidTreeMagic")
                /\ (BeginsWithTree(b) /\ Len(b) >= 8 /\ ReadU32(b, 4) # 1) =>
                       FailedBeforeNodes("InvalidTreeVersion")

\* C10 as amended: tree_entries(name) fails with TreeNotFound(name) when no
\* variable has the name; otherwise, the variable's block resolved, with
\* InvalidTreeMagic when the block is shorter than the 21-byte tree header
\* or does not begin with "tree", and with InvalidTreeVersion when it is 21
\* bytes or longer, begins with "tree" and its version is not 1; no node is
\* read before.
TreeHeaderLengthChecked ==
    rd.op = "tree_entries" =>
        /\ AbsentNotFound
        /\ HeaderResolved =>
            LET b == Resolved(1).val
            IN  /\ (Len(b) < 21 \/ ~BeginsWithTree(b)) =>
                       FailedBeforeNodes("InvalidTreeMagic")
                /\ (Len(b) >= 21 /\ BeginsWithTree(b) /\ ReadU32(b, 4) # 1) =>
                       FailedBeforeNodes("InvalidTreeVersion")

\* C10 witness: a block that begins with "tree" and a version other than 1
\* but is shorter than a tree header was refused for its magic
TreeHeaderLengthCheckedWitness ==
    /\ rd.op = "tree_entries" /\ HeaderResolved
    /\ BeginsWithTree(Resolved(1).val)
    /\ Len(Resolved(1).val) >= 8 /\ Len(Resolved(1).val) < 21
    /\ ReadU32(Resolved(1).val, 4) # 1
    /\ FailedBeforeNodes("InvalidTreeMagic")

----------------------------------------------------------------------------
(* Properties of the indices the writer holds *)

\* every index the last build_tree call returned or wrote names a block of
\* the writer: its root, the header's child_index, and every leaf's index,
\* forward, value_index and key_index
BuiltIndicesInside ==
    (built.called /\ ~panicked) =>
        LET n == Len(blocks)
        IN  /\ built.root < n
            /\ ReadU32(Block(built.root), 8) < n
            /\ \A i \in 1 .. Len(built.leaf_indices) :
                   /\ built.leaf_indices[i] < n
                   /\ LET leaf == Block(built.leaf_indices[i])
                      IN  /\ ReadU32(leaf, 4) < n
                          /\ \A j \in 1 .. ReadU16(leaf, 2) :
                                 /\ ReadU32(leaf, 12 + 8 * (j - 1)) < n
                                 /\ ReadU32(leaf, 12 + 8 * (j - 1) + 4) < n

\* every registered variable names a block of the writer
VariablesInside ==
    \A k \in 1 .. Len(variables) : variables[k][2] < Len(blocks)

\* C11 as claimed: after any sequence of add_block, add_variable and
\* build_tree calls every block index the writer holds (of a registered
\* variable, of a leaf's pairs and forward, of a tree header's child) is
\* smaller than the number of blocks.
ReferentialIntegrity == BuiltIndicesInside /\ VariablesInside

\* a step keeps the registered variables as they are and removes no block
VariablesKept ==
    /\ Len(blocks') >= Len(blocks)
    /\ Len(variables') >= Len(variables)
    /\ SubSeq(variables', 1, Len(variables)) = variables

\* C11 as amended: every block index build_tree returns or writes (a leaf's
\* value_index, key_index and forward, the tree header's child_index) is
\* smaller than the number of blocks; add_variable stores the index it is
\* handed unchecked, and no call changes a registered variable or removes a
\* block, so a variable's index is smaller than the number of blocks from
\* the call on if it was so at the call, and names no block otherwise.
TreeIndicesInside == [](BuiltIndicesInside) /\ [][VariablesKept]_vars

\* C11 witness: a writer that built a tree holds a variable whose index
\* names no block
TreeIndicesInsideWitness ==
    /\ built.called /\ ~panicked /\ built.entries # <<>>
    /\ ~VariablesInside

----------------------------------------------------------------------------
(* Properties of the variables table *)

\* the records variables() parses from the loaded archive, and the positions
\* of those called name
Table == Variables(data, bom.val)
TableHits(name) == {k \in 1 .. Len(Table) : Table[k].name = name}

\* the add_variable calls that registered name, and the index of the first
RegisteredAs(name) == {k \in 1 .. Len(variables) : variables[k][1] = name}
FirstRegistered(name) ==
    variables[CHOOSE k \in RegisteredAs(name) :
                  \A j \in RegisteredAs(name) : k <= j][2]

\* variable_get answered with the first add_variable call of the name asked
AnsweredAsRegistered ==
    IF RegisteredAs(rd.name) = {} THEN ~rd.found.some
    ELSE rd.found = SomeIndex(FirstRegistered(rd.name))

\* C12: variable_get(name) returns None when no record of the table has the
\* name and otherwise the index of the first record that has it; after
\* add_variable("Paths", idx), serialize and load, variable_get("Paths")
\* returns the idx of the first such call, and None if there was none.
VariableGetFirst ==
    rd.op = "variable_get" =>
        /\ IF TableHits(rd.name) = {} THEN ~rd.found.some
           ELSE /\ rd.found.some
                /\ \E k \in TableHits(rd.name) :
                       /\ \A j \in TableHits(rd.name) : k <= j
                       /\ rd.found.index = Table[k].index
        /\ (~touched /\ rd.name = Paths) => AnsweredAsRegistered

\* the same of every name asked, on the archives of writers whose names all
\* fit the name_len byte
VariableGetFirstShortNames ==
    (rd.op = "variable_get" /\ ~touched /\ ShortNames) => AnsweredAsRegistered

\* the offset of record k of the table (k >= 1), the records before it lying
\* inside the buffer
RECURSIVE RecStart(_)
RecStart(k) ==
    IF k = 1 THEN bom.val.variables_offset + 4
    ELSE LET before == RecStart(k - 1)
         IN  before + 5 + data[before + 5]

\* the 5-byte prefix and the name of record k lie inside the buffer
RecFits(k) ==
    /\ RecStart(k) + 5 <= Len(data)
    /\ RecStart(k) + 5 + data[RecStart(k) + 5] <= Len(data)

\* so do those of the first m records
RECURSIVE RecsFit(_)
RecsFit(m) == IF m = 0 THEN TRUE ELSE RecsFit(m - 1) /\ RecFits(m)

\* the count the table declares
DeclaredVariables == ReadU32(data, bom.val.variables_offset)

\* C13: variables() returns, without an error, the records (index: u32,
\* name_len: u8, name) of the table in table order up to the first record
\* whose 5-byte prefix or name would read past the end of the buffer: at
\* most count records, each inside the buffer, and short of count only
\* where the next record does not fit.
VariablesPrefix ==
    rd.op = "variables" =>
        /\ Len(rd.vars) <= DeclaredVariables
        /\ RecsFit(Len(rd.vars))
        /\ \A k \in 1 .. Len(rd.vars) :
               LET offset == RecStart(k)
                   name_len == data[offset + 5]
               IN  /\ rd.vars[k].index = ReadU32(data, offset)
                   /\ rd.vars[k].name =
                          Utf8Lossy(SubSeq(data, offset + 6,
                                           offset + 5 + name_len))
        /\ Len(rd.vars) < DeclaredVariables => ~RecFits(Len(rd.vars) + 1)

\* C13 witness: on a damaged archive variables() returned a record and
\* stopped short of the count at a record that does not fit
VariablesPrefixWitness ==
    /\ rd.op = "variables" /\ touched
    /\ Len(rd.vars) >= 1
    /\ Len(rd.vars) < DeclaredVariables

----------------------------------------------------------------------------
(* Properties of BomWriter::serialize *)

\* the buffer is what serialize returned for the writer as it is
Serialized == phase \in {"buffer", "again"} /\ ~touched

\* entry i of the index table of the buffer
EntryAddress(i) == ReadU32(data, HeaderIndexOffset + 4 + 8 * i)
EntryLength(i) == ReadU32(data, HeaderIndexOffset + 4 + 8 * i + 4)

\* the length of the variables table of the writer: the count and, for each
\* variable, its index, its name_len byte and its name
RECURSIVE RecordBytes(_)
RecordBytes(k) ==
    IF k = 0 THEN 0 ELSE RecordBytes(k - 1) + 5 + Len(variables[k][1])
TableLength == 4 + RecordBytes(Len(variables))

\* C14: the buffer serialize returns is the 32-byte header, the blocks in
\* insertion order, the index table and the variables table; the header
\* holds block_count, index_offset = 32 + the blocks' lengths,
\* index_length = 4 + 8 * block_count, variables_offset = index_offset +
\* index_length and the variables length; index entry i is (address_i,
\* length of block i), address_0 = 32, address_(i+1) = address_i +
\* length_i; the buffer is variables_offset + variables length long.
SerializeLayout ==
    Serialized =>
        LET n == Len(blocks)
        IN  /\ Len(data) >= HEADER_SIZE
            /\ SubSeq(data, 1, 8) = <<66, 79, 77, 83, 116, 111, 114, 101>>
            /\ ReadU32(data, 8) = 1
            /\ ReadU32(data, 12) = n
            /\ Block(0) = <<>>
            /\ HeaderIndexLength = 4 + 8 * n
            /\ HeaderVariablesOffset = HeaderIndexOffset + HeaderIndexLength
            /\ HeaderVariablesLength = TableLength
            /\ Len(data) = HeaderVariablesOffset + HeaderVariablesLength
            /\ ReadU32(data, HeaderIndexOffset) = n
            /\ EntryAddress(0) = 32
            /\ \A i \in 0 .. n - 1 :
                   /\ EntryLength(i) = Len(Block(i))
                   /\ SubSeq(data, EntryAddress(i) + 1,
                             EntryAddress(i) + EntryLength(i)) = Block(i)
                   /\ EntryAddress(i) + EntryLength(i) =
                          (IF i < n - 1 THEN EntryAddress(i + 1)
                           ELSE HeaderIndexOffset)
            /\ ReadU32(data, HeaderVariablesOffset) = Len(variables)

\* C14 witness: a writer with blocks of its own and a variable was
\* serialized
SerializeLayoutWitness ==
    /\ Serialized
    /\ Len(blocks) >= 4 /\ Block(Len(blocks) - 1) # <<>>
    /\ Len(variables) >= 1

\* a step is a serialize call: the first of the driving program, or a second
\* one with no writer call between
SerializeCall ==
    \/ phase = "write" /\ phase' = "buffer"
    \/ phase = "buffer" /\ phase' = "again"

----------------------------------------------------------------------------
(* resolve_path: the path it returns *)

Resolving == pcall.op = "resolve_path"
ResolveDone == Resolving /\ pcall.pc = "done"

\* the names of the ancestors of the record id, the root's first, each
\* followed by '/'; n bounds the number of ancestors
RECURSIVE AncestorPath(_, _, _)
AncestorPath(id, files, n) ==
    IF n = 0 \/ id \notin DOMAIN files THEN <<>>
    ELSE (AncestorPath(files[id][1], files, n - 1) \o files[id][2]) \o <<47>>

\* "usr/bin/ls"
UsrBinLs == <<117, 115, 114, 47, 98, 105, 110, 47, 108, 115>>
ExampleFiles == (5 :> <<0, Usr>>) @@ (6 :> <<5, Bin>>)

\* C16: what resolve_path returns is the names of the ancestors from the root
\* to the leaf, each followed by '/', and then file_key.name; with the map
\* {5: (0, "usr"), 6: (5, "bin")} and the key (6, "ls") it is "usr/bin/ls",
\* and with a parent that is not in the map it is the name alone.
ResolvePathJoins ==
    ResolveDone =>
        /\ pcall.path =
              AncestorPath(pcall.key.parent, pcall.files,
                           Cardinality(DOMAIN pcall.files))
              \o pcall.key.name
        /\ (pcall.files = ExampleFiles /\ pcall.key = [parent |-> 6, name |-> Ls]
              => pcall.path = UsrBinLs)
        /\ (pcall.key.parent \notin DOMAIN pcall.files
              => pcall.path = pcall.key.name)

\* the call of the example has returned
ResolvePathJoinsWitness ==
    /\ ResolveDone
    /\ pcall.files = ExampleFiles
    /\ pcall.key = [parent |-> 6, name |-> Ls]
    /\ pcall.steps = 2
    /\ pcall.path = UsrBinLs

----------------------------------------------------------------------------
(* resolve_path: termination *)

\* the ids of the first n lookups of a walk that starts at id
RECURSIVE ParentChain(_, _, _)
ParentChain(id, files, n) ==
    IF n = 0 THEN <<>>
    ELSE IF id \notin DOMAIN files THEN <<id>>
    ELSE <<id>> \o ParentChain(files[id][1], files, n - 1)

\* the parent chain that starts at file_key.parent comes back to an id
Revisits(c) ==
    LET ch == ParentChain(c.key.parent, c.files,
                          Cardinality(DOMAIN c.files) + 1)
    IN  \E i, j \in DOMAIN ch : i < j /\ ch[i] = ch[j]

\* the id at which the parent chain ends
ChainEnd(c) ==
    LET ch == ParentChain(c.key.parent, c.files,
                          Cardinality(DOMAIN c.files) + 1)
    IN  ch[Len(ch)]

\* C17: resolve_path has no cycle guard.  It returns exactly when the walk
\* from file_key.parent reaches an id without an entry: a call whose parent
\* chain revisits no id does return, at that id, and a call whose parent
\* chain revisits an id never returns.
ResolveNoCycleGuard ==
    /\ [](ResolveDone =>
            /\ ~Revisits(pcall)
            /\ pcall.next = ChainEnd(pcall)
            /\ pcall.next \notin DOMAIN pcall.files)
    /\ [](Resolving /\ Revisits(pcall) => pcall.pc = "loop")
    /\ ((Resolving /\ ~Revisits(pcall)) ~> ResolveDone)

\* an entry whose parent is its own id, and the loop still running after
\* MaxSteps iterations
ResolveNoCycleGuardWitness ==
    /\ Resolving
    /\ pcall.key.parent = 5
    /\ 5 \in DOMAIN pcall.files
    /\ pcall.files[5][1] = 5
    /\ pcall.pc = "loop"
    /\ pcall.steps = MaxSteps

----------------------------------------------------------------------------
(* PathInfo2::from_bytes: the optional tail *)

Info2Done == pcall.op = "PathInfo2" /\ pcall.pc = "done"

\* C18: PathInfo2::from_bytes returns a record for every buffer of at least
\* 22 bytes and None for a shorter one; checksum is the u32 at offset 23 when
\* the buffer has at least 27 bytes and 0 otherwise; link_name is the
\* link_len bytes after the u32 link_len at offset 27 when the buffer has at
\* least 31 + link_len bytes, and empty otherwise.
PathInfo2Tail ==
    Info2Done =>
        LET d == pcall.bytes
            r == pcall.result
            link_len == ReadU32(d, 27)
            link == SubSeq(d, 32, 31 + link_len)
        IN  /\ (Len(d) < 22) = (r = NoRecord)
            /\ Len(d) >= 22 =>
                 /\ r.some
                 /\ r.val.checksum = IF Len(d) >= 27 THEN ReadU32(d, 23) ELSE 0
                 /\ IF Len(d) >= 31 /\ Len(d) - 31 >= link_len
                    THEN /\ r.val.link_name = Utf8Lossy(link)
                         /\ (Utf8Lossy(link) = link => r.val.link_name = link)
                    ELSE r.val.link_name = <<>>

\* a buffer with a checksum whose link_len runs over its end
PathInfo2TailWitness ==
    /\ Info2Done
    /\ Len(pcall.bytes) >= 31
    /\ ReadU32(pcall.bytes, 27) > Len(pcall.bytes) - 31
    /\ pcall.result.some
    /\ pcall.result.val.checksum = SampleInfo2.checksum
    /\ pcall.result.val.link_name = <<>>

----------------------------------------------------------------------------
(* FileKey: to_bytes and from_bytes *)

KeyEncoded == pcall.op = "FileKey" /\ pcall.key.some /\ pcall.pc # "encode"
KeyDone == pcall.op = "FileKey" /\ pcall.pc = "done"

\* the four bytes of a u32, the most significant first
BigEndian4(n) ==
    <<n \div 16777216, (n \div 65536) % 256, (n \div 256) % 256, n % 256>>

\* s holds no NUL byte
NulFree(s) == \A i \in DOMAIN s : s[i] # 0

\* C19: to_bytes writes parent as a big-endian u32, the bytes of the name and
\* one NUL; from_bytes reads parent from the first four bytes and takes as
\* name the bytes after them up to the first NUL, or to the end without one;
\* so from_bytes(to_bytes(k)) = k for every key whose name holds no NUL, the
\* empty name included, and a name that holds a NUL is cut at it.
FileKeyCodec ==
    /\ KeyEncoded =>
         pcall.bytes =
             (BigEndian4(pcall.key.val.parent) \o pcall.key.val.name) \o <<0>>
    /\ KeyDone /\ Len(pcall.bytes) >= 5 =>
         LET d == pcall.bytes
             rest == SubSeq(d, 5, Len(d))
         IN  /\ pcall.result.some
             /\ BigEndian4(pcall.result.val.parent) = SubSeq(d, 1, 4)
             /\ \E n \in 0 .. Len(rest) :
                    /\ NulFree(SubSeq(rest, 1, n))
                    /\ n = Len(rest) \/ rest[n + 1] = 0
                    /\ pcall.result.val.name = Utf8Lossy(SubSeq(rest, 1, n))
                    /\ (Utf8Lossy(SubSeq(rest, 1, n)) = SubSeq(rest, 1, n)
                          => pcall.result.val.name = SubSeq(rest, 1, n))
    /\ KeyDone /\ pcall.key.some =>
         LET name == pcall.key.val.name
         IN  IF NulFree(name) THEN pcall.result = pcall.key
             ELSE /\ pcall.result.some
                  /\ pcall.result.val.parent = pcall.key.val.parent
                  /\ Len(pcall.result.val.name) < Len(name)
                  /\ NulFree(pcall.result.val.name)
                  /\ name[Len(pcall.result.val.name) + 1] = 0
                  /\ pcall.result.val.name =
                         SubSeq(name, 1, Len(pcall.result.val.name))

\* the key with the empty name has gone through to_bytes and from_bytes
FileKeyCodecWitness ==
    /\ KeyDone
    /\ pcall.key = SomeRecord([parent |-> 6, name |-> <<>>])
    /\ pcall.bytes = <<0, 0, 0, 6, 0>>
    /\ pcall.result = pcall.key

----------------------------------------------------------------------------
(* tree_entries: termination *)

\* the block of index i in the writer, empty when there is none
ChainBlock(i) == IF i + 1 \in DOMAIN blocks THEN blocks[i + 1] ELSE <<>>

NoNode == 0 - 1

\* the node the walk goes to from the node of block index i: a leaf's
\* forward pointer unless it is 0, a non-leaf's first child if it has one
Follows(i) ==
    LET blk == ChainBlock(i)
    IN  IF Len(blk) < 12 THEN NoNode
        ELSE IF blk[1] # 0 \/ blk[2] # 0
        THEN IF ReadU32(blk, 4) # 0 THEN ReadU32(blk, 4) ELSE NoNode
        ELSE IF (blk[3] # 0 \/ blk[4] # 0) /\ Len(blk) >= 20
        THEN ReadU32(blk, 12)
        ELSE NoNode

\* the first n block indices the walk from i goes through
RECURSIVE ChainWalk(_, _)
ChainWalk(i, n) ==
    IF n = 0 \/ i = NoNode THEN <<>>
    ELSE <<i>> \o ChainWalk(Follows(i), n - 1)

\* the walk from the child_index of the tree header
NodeChain == ChainWalk(ReadU32(ChainBlock(1), 8), Len(blocks) + 1)

\* the walk comes back to a node
ChainLoops ==
    LET ch == NodeChain
    IN  \E i, j \in DOMAIN ch : i < j /\ ch[i] = ch[j]

\* C20: tree_entries has no cycle detection.  When the nodes reached from the
\* tree header's child_index through first-child pointers of non-leaves and
\* forward pointers of leaves are a chain that revisits no node, the call
\* returns, having gone through exactly that chain; when a pointer leads
\* back to a node already visited, the call never returns a result.
TreeEntriesNoCycleGuard ==
    /\ [](TreeRead => ~ChainLoops /\ rd.nodes = <<1>> \o NodeChain)
    /\ [](rd.op = "tree_entries" /\ ChainLoops => rd.pc = "collect")
    /\ ((rd.pc = "collect" /\ ~ChainLoops) ~> TreeRead)

\* a leaf whose forward field is its own block index, and the recursion
\* MaxDepth invocations deep
TreeEntriesNoCycleGuardWitness ==
    /\ rd.op = "tree_entries"
    /\ rd.pc = "collect"
    /\ rd.depth = MaxDepth
    /\ ReadU16(ChainBlock(2), 0) = 1
    /\ ReadU32(ChainBlock(2), 4) = 2
    /\ \A k \in 2 .. Len(rd.nodes) : rd.nodes[k] = 2

----------------------------------------------------------------------------
(* tree_entries: the order of the entries *)

\* the entries of the leaf of block index i, in stored order: the pair at
\* 12 + 8 (j - 1) holds value_index and then key_index
StoredPairs(i) ==
    LET blk == ChainBlock(i)
    IN  [j \in 1 .. ReadU16(blk, 2) |->
            [key |-> ChainBlock(ReadU32(blk, 12 + 8 * (j - 1) + 4)),
             value |-> ChainBlock(ReadU32(blk, 12 + 8 * (j - 1)))]]

\* the walk from the tree header goes through leaves only and ends
LeafChain ==
    /\ ~ChainLoops
    /\ \A k \in DOMAIN NodeChain :
          /\ Len(ChainBlock(NodeChain[k])) >= 12
          /\ ReadU16(ChainBlock(NodeChain[k]), 0) # 0

\* C21: for a chain of leaves L1 -> L2 -> ... -> Lk linked by forward
\* pointers that revisits no leaf, tree_entries returns the entries of L1 in
\* stored order, then those of L2, and so on; each entry pairs the block at
\* key_index as key with the block at value_index as value, value_index being
\* stored first; the entries are not sorted by key.
LeafChainOrder ==
    TreeRead /\ LeafChain =>
        /\ rd.ok
        /\ rd.entries =
              ConcatRange([k \in 1 .. Len(NodeChain) |-> StoredPairs(NodeChain[k])],
                          1, Len(NodeChain))

\* two leaves have been read, and the key of the first leaf's entry (block 2)
\* is larger than the key of the second leaf's entry (block 3)
LeafChainOrderWitness ==
    /\ TreeRead /\ LeafChain
    /\ Len(NodeChain) = 2
    /\ Len(rd.entries) = 2
    /\ rd.entries[1] = [key |-> <<9>>, value |-> <<5>>]
    /\ rd.entries[2] = [key |-> <<5>>, value |-> <<9>>]

----------------------------------------------------------------------------
(* tree_entries: non-leaf nodes *)

\* the root of the tree (block 2) is a non-leaf
BranchRoot == ChainBlock(2)
RootIsBranch == Len(BranchRoot) >= 12 /\ ReadU16(BranchRoot, 0) = 0
RootCount == ReadU16(BranchRoot, 2)
RootHolds == Len(BranchRoot) >= 20

\* C22: on a non-leaf node the reader consults only the value index of the
\* first child entry and recurses into that block alone: the node's further
\* child entries and its forward pointer are never followed, and a non-leaf
\* of count 0 contributes no entries and raises no error.
FirstChildOnly ==
    TreeRead /\ RootIsBranch =>
        IF RootCount > 0 /\ RootHolds
        THEN LET first == ReadU32(BranchRoot, 12)
             IN  /\ rd.nodes = <<1, 2, first>>
                 /\ IF first + 1 \in DOMAIN blocks
                    THEN rd.ok /\ rd.entries = StoredPairs(first)
                    ELSE /\ ~rd.ok
                         /\ rd.err = Error("IndexOutOfRange", first, <<>>)
        ELSE /\ rd.nodes = <<1, 2>>
             /\ rd.ok
             /\ rd.entries = <<>>

\* a non-leaf of two child entries whose forward field and second child are
\* the leaf of block 4: the read has returned the entry of block 3 alone
FirstChildOnlyWitness ==
    /\ TreeRead /\ RootIsBranch
    /\ RootCount = 2 /\ RootHolds
    /\ ReadU32(BranchRoot, 4) = 4
    /\ ReadU32(BranchRoot, 12) = 3
    /\ ReadU32(BranchRoot, 20) = 4
    /\ rd.ok
    /\ rd.nodes = <<1, 2, 3>>
    /\ rd.entries = << [key |-> <<5>>, value |-> <<9>>] >>

----------------------------------------------------------------------------
(* build_tree: the tree header and the order of the blocks *)

\* the leaf blocks of the last build_tree call: those of leaf_indices, or the
\* lone empty leaf
BuiltLeaves ==
    IF built.entries = <<>> THEN <<built.base>> ELSE built.leaf_indices

\* the last build_tree call has returned the index of the last block it
\* added, a tree header of 21 bytes over its first leaf
HeaderOverFirstLeaf ==
    LET n == Len(built.entries)
        root == built.root
    IN  /\ ~panicked
        /\ root = built.base + 2 * n + Len(BuiltLeaves)
        /\ root + 1 <= Len(blocks)
        /\ Len(Block(root)) = 21
        /\ Slice(Block(root), 0, 4) = <<116, 114, 101, 101>>
        /\ ReadU32(Block(root), 4) = 1
        /\ ReadU32(Block(root), 8) = BuiltLeaves[1]
        /\ ReadU32(Block(root), 12) = 4096
        /\ ReadU32(Block(root), 16) = n
        /\ Block(root)[21] = 0

\* in every leaf of the last build_tree call the value block of a pair is
\* the block before its key block, and they hold the pair supplied
ValueBeforeKey ==
    \A i \in DOMAIN built.leaf_indices :
        LET leaf == Block(built.leaf_indices[i])
        IN  \A j \in 1 .. ReadU16(leaf, 2) :
                LET value_index == ReadU32(leaf, 12 + 8 * (j - 1))
                    key_index == ReadU32(leaf, 12 + 8 * (j - 1) + 4)
                    pair == built.entries[(i - 1) * ENTRIES_PER_LEAF + j]
                IN  /\ key_index = value_index + 1
                    /\ Block(value_index) = pair[2]
                    /\ Block(key_index) = pair[1]

\* C23: build_tree returns the index of the last block it adds, a 21-byte
\* tree header: magic "tree", version 1, child_index = the first leaf (or the
\* lone empty leaf), block_size 4096, path_count = the number of entries
\* supplied, one zero byte; within each leaf every pair's value block is added
\* before its key block, so key_index = value_index + 1.
TreeHeaderBlock == built.called => HeaderOverFirstLeaf /\ ValueBeforeKey

\* the same for the calls on at least one entry
TreeHeaderBlockNonEmpty ==
    built.called /\ built.entries # <<>> => HeaderOverFirstLeaf /\ ValueBeforeKey

----------------------------------------------------------------------------
(* Blocks: from the writer to the reader *)

\* the archive of a writer that has not panicked was loaded
LoadedBack == phase = "read" /\ ~panicked /\ ~touched

\* a step of add_block: one block more, no tree built, no variable added
AddBlockCall ==
    /\ Len(blocks') = Len(blocks) + 1
    /\ built' = built
    /\ variables' = variables

\* every block of the writer is read back under its index
BlocksReadBack ==
    LoadedBack =>
        /\ bom.ok
        /\ bom.val.index_count = Len(blocks)
        /\ index_get(data, bom.val, 0) = Some(<<>>)
        /\ \A i \in 0 .. Len(blocks) - 1 :
              index_get(data, bom.val, i) = Some(blocks[i + 1])
        /\ (rd.op = "index_get" /\ rd.pc = "done" /\ rd.index < Len(blocks)
              => rd.slice = Some(blocks[rd.index + 1]))

\* C24: for every writer reached by add_block, add_variable and build_tree
\* calls on non-empty lists, Bom::load(serialize()) succeeds, index_count is
\* the writer's number of blocks with block 0, index_get(0) is the empty
\* slice and index_get(i) is the bytes of block i for every i; add_block
\* returns consecutive indices that start at 1.
BlockRoundTrip ==
    /\ [](BlocksReadBack)
    /\ [][AddBlockCall =>
            /\ NextIndex(blocks) >= 1
            /\ blocks' = Append(blocks, blocks'[NextIndex(blocks) + 1])
            /\ NextIndex(blocks') = NextIndex(blocks) + 1]_vars

\* index_get has returned block 3 of a writer that added blocks and built a
\* tree
BlockRoundTripWitness ==
    /\ LoadedBack
    /\ built.called
    /\ Len(blocks) > built.root + 1
    /\ rd.op = "index_get" /\ rd.pc = "done" /\ rd.index = 3
    /\ rd.slice = Some(blocks[4])

----------------------------------------------------------------------------
(* Variables: from the writer to the reader *)

\* the add_variable calls of the writer, as variables() returns records
AsVariables ==
    [k \in 1 .. Len(variables) |->
        [name |-> variables[k][1], index |-> variables[k][2]]]

\* the offset at which serialize writes the record of call k
RECURSIVE WrittenAt(_)
WrittenAt(k) ==
    IF k = 1 THEN ReadU32(data, 24) + 4
    ELSE WrittenAt(k - 1) + 5 + Len(variables[k - 1][1])

\* variables() has returned on the archive of the writer
VariablesListed == rd.op = "variables" /\ rd.pc = "done" /\ ~touched

\* variables() returns the add_variable calls in call order, and every
\* name_len byte is the length of the name behind it
CallsListed ==
    /\ rd.vars = AsVariables
    /\ \A k \in 1 .. Len(variables) :
          data[WrittenAt(k) + 5] = Len(variables[k][1])

\* C25: for any sequence of add_variable(name, index) calls with any names,
\* Bom::load(serialize()).variables() returns the same (name, index) pairs in
\* call order: the name_len byte serialize writes for each record is the
\* byte length of the name written after it.
VariablesRoundTrip == VariablesListed => CallsListed

\* the same on the archives of writers whose names all fit the name_len byte
VariablesRoundTripShortNames == VariablesListed /\ ShortNames => CallsListed

----------------------------------------------------------------------------
(* Several trees on one writer *)

\* the tree built last was registered as name, no earlier variable having
\* that name
LastTreeIs(name) ==
    /\ built.called /\ built.entries # <<>>
    /\ RegisteredRoot(name)

\* C26: build_tree and add_block touch only the blocks the call creates:
\* every block that was there before is unchanged and keeps its index, and
\* the variable list is unchanged; so when several trees on non-empty lists
\* are built on one writer, with add_block calls between them, and
\* registered under different names, tree_entries returns for each name the
\* entries its own build_tree call was handed.
TreesApart ==
    /\ [][blocks' # blocks =>
            /\ Len(blocks') > Len(blocks)
            /\ SubSeq(blocks', 1, Len(blocks)) = blocks
            /\ variables' = variables]_vars
    /\ [](TreeRead /\ ~panicked /\ rd.name = Paths =>
            rd.ok /\ rd.entries = AsTreeEntries(FirstTree))
    /\ [](TreeRead /\ ~panicked /\ LastTreeIs(rd.name) =>
            rd.ok /\ rd.entries = AsTreeEntries(built.entries))

\* a tree of two leaves was built behind the first tree and a block, and
\* registered as "HLIndex"; the first tree has been read back
TreesApartWitness ==
    /\ TreeRead /\ ~panicked
    /\ rd.name = Paths
    /\ rd.entries = AsTreeEntries(FirstTree)
    /\ LastTreeIs(HLIndex)
    /\ Len(built.leaf_indices) = 2
    /\ built.base > variables[1][2] + 1

----------------------------------------------------------------------------
(* The trees build_tree writes: termination of their read *)

\* the forward field of the leaf of block index i
ForwardOf(i) == ReadU32(Block(i), 4)

\* the leaves of the last build_tree call point forward at later leaves of
\* the call, or nowhere, and its header points back at a leaf
ChainsForward ==
    built.called /\ ~panicked =>
        /\ \A k \in DOMAIN built.leaf_indices :
              LET leaf == built.leaf_indices[k]
              IN  \/ ForwardOf(leaf) = 0
                  \/ /\ ForwardOf(leaf) > leaf
                     /\ \E j \in DOMAIN built.leaf_indices :
                            built.leaf_indices[j] = ForwardOf(leaf)
                     /\ ReadU16(Block(ForwardOf(leaf)), 0) = 1
        /\ ReadU32(Block(built.root), 8) < built.root
        /\ ReadU32(Block(built.root), 8) = BuiltLeaves[1]
        /\ ReadU16(Block(BuiltLeaves[1]), 0) = 1

\* tree_entries was asked for a variable that points at the tree built last
ReadingBuilt ==
    /\ rd.op = "tree_entries"
    /\ built.called /\ ~panicked /\ ~touched
    /\ RegisteredRoot(rd.name)

\* C27: in every archive of BomWriter each leaf's forward pointer is 0 or
\* the index of a leaf with a larger block index, and each tree header's
\* child_index is smaller than the header's index and points at a leaf; so
\* tree_entries terminates on every variable that points at a build_tree
\* result, and visits each leaf of the tree once.
BuiltTreesTerminate ==
    /\ [](ChainsForward)
    /\ [](ReadingBuilt /\ rd.pc = "done" =>
            rd.ok /\ rd.nodes = <<built.root>> \o BuiltLeaves)
    /\ ((ReadingBuilt /\ rd.pc = "collect") ~> (ReadingBuilt /\ rd.pc = "done"))

\* the tree of two leaves has been read, leaf by leaf
BuiltTreesTerminateWitness ==
    /\ ReadingBuilt /\ rd.pc = "done"
    /\ Len(built.leaf_indices) = 2
    /\ rd.nodes = <<built.root>> \o built.leaf_indices
    /\ rd.depth = 2

----------------------------------------------------------------------------
(* mkbom's path records: the parent relation *)

Listing == pcall.op = "lsbom"

\* the records lsbom is reading are those build_bom emits for some file list
FromMkbom == Listing /\ pcall.entries \in {BuildBomEntries(p) : p \in PathLists}

\* the (id, parent, name) the pairs decode to
DecodedRecords(entries) ==
    [i \in 1 .. Len(entries) |->
        [id |-> PathInfo1FromBytes(entries[i][2]).val.id,
         parent |-> FileKeyFromBytes(entries[i][1]).val.parent,
         name |-> FileKeyFromBytes(entries[i][1]).val.name]]

\* the id -> (parent, name) map lsbom has once it has seen the first n pairs
RECURSIVE FilesAfter(_, _)
FilesAfter(entries, n) ==
    IF n = 0 THEN <<>>
    ELSE LET r == DecodedRecords(entries)[n]
         IN  FilesInsert(FilesAfter(entries, n - 1), r.id, r.parent, r.name)
AllFiles(entries) == FilesAfter(entries, Len(entries))

NoRepeat(s) == \A i, j \in 1 .. Len(s) : s[i] = s[j] => i = j

IdsUnique(entries) ==
    NoRepeat([i \in 1 .. Len(entries) |-> DecodedRecords(entries)[i].id])

\* no parent chain comes back to an id it has visited
ParentsAcyclic(entries) ==
    \A i \in 1 .. Len(entries) :
        LET r == DecodedRecords(entries)[i]
        IN  /\ r.parent # r.id
            /\ NoRepeat(<<r.id>> \o ParentChain(r.parent, AllFiles(entries),
                                                Len(entries) + 1))

\* C28: the records build_bom emits have unique ids and an acyclic parent
\* relation, no record being its own parent, so that resolve_path never
\* runs on for a record of mkbom.
MkbomParentsAcyclic ==
    FromMkbom =>
        /\ IdsUnique(pcall.entries)
        /\ ParentsAcyclic(pcall.entries)
        /\ (pcall.pc = "loop" => pcall.steps <= Len(pcall.entries))

\* the ids alone are unique
MkbomIdsUnique == FromMkbom => IdsUnique(pcall.entries)

\* the first record of mkbom has the id 0 and the parent 0, and the loop of
\* resolve_path on it never leaves
MkbomFirstRecordLoops ==
    FromMkbom /\ pcall.entries # <<>> =>
        /\ DecodedRecords(pcall.entries)[1].id = 0
        /\ DecodedRecords(pcall.entries)[1].parent = 0
        /\ pcall.k = 1
        /\ pcall.pc \in {"entry", "loop"}

----------------------------------------------------------------------------
(* lsbom: the paths and the order of the entries *)

\* the paths lsbom collects, the call c run to its end
RECURSIVE LsbomRun(_)
LsbomRun(c) ==
    IF c.pc = "end" THEN c.collected
    ELSE IF c.pc = "entry" THEN LsbomRun(LsbomBody(c))
    ELSE IF c.pc = "loop" THEN LsbomRun(ResolveIteration(c))
    ELSE LsbomRun(LsbomPush(c))

\* lsbom has listed a tree of records whose parent relation is acyclic
ListedOrdering == Listing /\ pcall.pc = "end" /\ pcall.entries \in Orderings

SameSet(s, t) == {s[i] : i \in 1 .. Len(s)} = {t[i] : i \in 1 .. Len(t)}

\* C29: the path lsbom computes for an entry is the same under every
\* ordering of the same set of entries, and it is the names of the entry's
\* ancestors from the root down, then its own name, joined by '/'.
PathsOrderFree ==
    ListedOrdering =>
        /\ \A o \in Orderings :
              SameSet(o, pcall.entries) =>
                  \A i \in 1 .. Len(pcall.entries), j \in 1 .. Len(o) :
                      o[j] = pcall.entries[i] =>
                          LsbomRun(LsbomStart(o))[j] = pcall.collected[i]
        /\ \A i \in 1 .. Len(pcall.entries) :
              LET r == DecodedRecords(pcall.entries)[i]
              IN  pcall.collected[i] =
                      AncestorPath(r.parent, AllFiles(pcall.entries),
                                   Len(pcall.entries)) \o r.name

\* every entry comes after its ancestors
AncestorsFirst(entries) ==
    \A i \in 1 .. Len(entries) :
        LET r == DecodedRecords(entries)[i]
        IN  \A a \in 1 .. Len(ParentChain(r.parent, AllFiles(entries),
                                         Len(entries))) :
                ParentChain(r.parent, AllFiles(entries), Len(entries))[a]
                    \in DOMAIN FilesAfter(entries, i)

\* the paths of a tree that lists every entry after its ancestors
PathsAncestorsFirst ==
    ListedOrdering /\ AncestorsFirst(pcall.entries) =>
        \A i \in 1 .. Len(pcall.entries) :
            LET r == DecodedRecords(pcall.entries)[i]
            IN  pcall.collected[i] =
                    AncestorPath(r.parent, AllFiles(pcall.entries),
                                 Len(pcall.entries)) \o r.name

----------------------------------------------------------------------------
(* PathInfo2 and PathInfo1: to_bytes and from_bytes *)

Encoded(op) ==
    pcall.op = op /\ pcall.record.some /\ pcall.pc \in {"decode", "done"}

\* C30: from_bytes(p.to_bytes()) is p in every field, for PathInfo2 and for
\* PathInfo1; the bytes of a PathInfo2 are 31 + len(link_name), with the
\* device-type byte at offset 22, the checksum at 23, link_len at 27 and the
\* link name after it; PathInfo1::from_bytes is None below 8 bytes.
PathInfoRoundTrip ==
    /\ Encoded("PathInfo2") =>
          LET p == pcall.record.val
          IN  /\ Len(pcall.bytes) = 31 + Len(p.link_name)
              /\ pcall.bytes[23] = 1
              /\ ReadU32(pcall.bytes, 23) = p.checksum
              /\ ReadU32(pcall.bytes, 27) = Len(p.link_name)
              /\ Slice(pcall.bytes, 31, Len(pcall.bytes)) = p.link_name
              /\ (pcall.pc = "done" => pcall.result = SomeRecord(p))
    /\ Encoded("PathInfo1") =>
          /\ Len(pcall.bytes) = 8
          /\ (pcall.pc = "done"
                => pcall.result = SomeRecord(pcall.record.val))
    /\ (pcall.op = "PathInfo1" /\ pcall.pc = "done"
          => (pcall.result.some <=> Len(pcall.bytes) >= 8))

\* a symbolic link with a name of 300 bytes has come back
PathInfoRoundTripWitness ==
    /\ Encoded("PathInfo2")
    /\ pcall.pc = "done"
    /\ pcall.record.val.path_type = 3
    /\ pcall.record.val.link_name = LongLink
    /\ pcall.record.val.checksum = 305419896
    /\ pcall.result.some

====
